---- MODULE Spec2Model ----
(***************************************************************************)
(* A model of dotnetserde: the NRBF record decoder                         *)
(* (binary/deserialization.py, binary/handlers.py), the NRBF -> CLI bridge *)
(* (binary/bridge.py, cli/models.py) and the Data Contract XML handler     *)
(* stack (datacontract/handlers.py).                                       *)
(*                                                                         *)
(* Conventions                                                             *)
(*   - a Python Optional[int] is a sequence: << >> is None, <<v>> is v;    *)
(*   - a Python value is a tagged record ([t |-> "None"], [t |-> "int",    *)
(*     v |-> 5], ...); a Python object with identity is an address into a  *)
(*     heap sequence;                                                      *)
(*   - a str is the sequence of its code points (ASCII only);              *)
(*   - a raised exception is a record [kind |-> <class name>, args |-> ..].*)
(***************************************************************************)
EXTENDS Integers, Sequences, FiniteSets, TLC

VARIABLES
    f,          \* the binary stream handed to the decoder
    pos,        \* the stream position (bytes consumed so far)
    pc,         \* position of the running operation
    err,        \* the exception that ended the operation, or NoErr
    arg,        \* the input the operation was called with (never changes)
    ret,        \* the value returned by the operation, or NoRet
    ctx,        \* the _DeserializationContext of the running decode
    heap,       \* the Instance and Array objects allocated by the decode
    code,       \* Deserializer.__call__: the record code read last
    iter,       \* Deserializer.__call__: values left in the iterator i (<< >> when i is None)
    continue_,  \* Deserializer.__call__: the loop flag
    dispatched, \* history: the codes of the top-level handlers invoked so far
    bridge,     \* the Bridge built on the decoder's result (<< >> before it is built)
    calls,      \* history: the calls made on the bridge and what each returned
    events,     \* the SAX events the XML parser has still to deliver
    handlers,   \* the content handler objects created so far (index = identity)
    handler,    \* the parser's current content handler (0 before setContentHandler)
    cli,        \* the CLI types, type instances and values of the XML decode
    pushed,     \* history: the push_value calls made so far
    opened      \* history: per element begun and not ended, the handler current before it

vars == <<f, pos, pc, err, arg, ret, ctx, heap, code, iter, continue_, dispatched,
          bridge, calls, events, handlers, handler, cli, pushed, opened>>
decVars == <<ctx, heap, code, iter, continue_, dispatched>>
brVars == <<bridge, calls>>
xmlVars == <<events, handlers, handler, cli, pushed, opened>>

NoErr == [kind |-> "none", args |-> << >>]
NoRet == [t |-> "noret"]
Raise(kind, args) == [kind |-> kind, args |-> args]

----------------------------------------------------------------------------
(* Byte streams.  A stream is its explicit bytes followed by `fill` more    *)
(* content bytes (all 97, "a"), so that a long string body need not be      *)
(* written out.                                                             *)

File(data, fill) == [data |-> data, fill |-> fill]
Size(file) == Len(file.data) + file.fill
ByteAt(file, p) == IF p < Len(file.data) THEN file.data[p + 1] ELSE 97
Min(a, b) == IF a < b THEN a ELSE b

RECURSIVE BitAnd(_, _)
BitAnd(a, b) ==
    IF a = 0 \/ b = 0 THEN 0
    ELSE (IF a % 2 = 1 /\ b % 2 = 1 THEN 1 ELSE 0) + 2 * BitAnd(a \div 2, b \div 2)

RECURSIVE BitOr(_, _)
BitOr(a, b) ==
    IF a = 0 THEN b
    ELSE IF b = 0 THEN a
    ELSE (IF a % 2 = 1 \/ b % 2 = 1 THEN 1 ELSE 0) + 2 * BitOr(a \div 2, b \div 2)

(* handlers.read: f.read(n), UnexpectedEOF(n, len(b)) on a short read.      *)
(* A negative n reads to the end of the stream, as io.BytesIO.read does.    *)
read(file, p, n) ==
    LET avail == Size(file) - p
        got == IF n < 0 THEN avail ELSE Min(n, avail)
    IN  IF got < n
        THEN [ok |-> FALSE, err |-> Raise("UnexpectedEOF", <<n, got>>), pos |-> p + got]
        ELSE [ok |-> TRUE, err |-> NoErr, pos |-> p + got]

(* _LengthPrefixedStringReader.__call__: the decoded length l and the read  *)
(* of the l body bytes; the body is the bytes at [start, start + len).      *)
LPSBody(file, p, l) ==
    LET r == read(file, p, l)
    IN  IF r.ok
        THEN [ok |-> TRUE, err |-> NoErr, pos |-> r.pos, start |-> p, len |-> r.pos - p]
        ELSE [ok |-> FALSE, err |-> r.err, pos |-> r.pos, start |-> p, len |-> 0]

LPSFail(r) == [ok |-> FALSE, err |-> r.err, pos |-> r.pos, start |-> r.pos, len |-> 0]

LengthPrefixedStringReader(file, p) ==
    LET r1 == read(file, p, 1)
        l1 == ByteAt(file, p)
        r2 == read(file, p + 1, 1)
        ll2 == ByteAt(file, p + 1)
        l2 == BitOr(BitAnd(l1, 127), BitAnd(ll2, 127) * 128)
        r3 == read(file, p + 2, 1)
        ll3 == ByteAt(file, p + 2)
        l3 == BitOr(BitAnd(l2, 127), BitAnd(ll3, 127) * 16384)
        r4 == read(file, p + 3, 1)
        ll4 == ByteAt(file, p + 3)
        l4 == BitOr(BitAnd(l3, 127), BitAnd(ll4, 127) * 2097152)
        r5 == read(file, p + 4, 1)
        ll5 == ByteAt(file, p + 4)
        l5 == BitOr(BitAnd(l4, 127), BitAnd(ll5, 127) * 268435456)
    IN  IF ~r1.ok THEN LPSFail(r1)
        ELSE IF l1 <= 127 THEN LPSBody(file, p + 1, l1)
        ELSE IF ~r2.ok THEN LPSFail(r2)
        ELSE IF ll2 <= 127 THEN LPSBody(file, p + 2, l2)
        ELSE IF ~r3.ok THEN LPSFail(r3)
        ELSE IF ll3 <= 127 THEN LPSBody(file, p + 3, l3)
        ELSE IF ~r4.ok THEN LPSFail(r4)
        ELSE IF ll4 <= 127 THEN LPSBody(file, p + 4, l4)
        ELSE IF ~r5.ok THEN LPSFail(r5)
        ELSE IF ll5 <= 127 THEN LPSBody(file, p + 5, l5)
        ELSE [ok |-> FALSE, err |-> Raise("InvalidStreamError", << >>),
              pos |-> p + 5, start |-> p + 5, len |-> 0]

----------------------------------------------------------------------------
(* Integers on the wire (struct.unpack, little-endian).                     *)

I32(file, p) ==
    ByteAt(file, p) + 256 * ByteAt(file, p + 1) + 65536 * ByteAt(file, p + 2)
        + 16777216 * (IF ByteAt(file, p + 3) >= 128 THEN ByteAt(file, p + 3) - 256
                      ELSE ByteAt(file, p + 3))
I16(file, p) ==
    ByteAt(file, p) + 256 * (IF ByteAt(file, p + 1) >= 128 THEN ByteAt(file, p + 1) - 256
                             ELSE ByteAt(file, p + 1))
U16(file, p) == ByteAt(file, p) + 256 * ByteAt(file, p + 1)
I8(file, p) == IF ByteAt(file, p) >= 128 THEN ByteAt(file, p) - 256 ELSE ByteAt(file, p)

Slice(file, start, len) == [i \in 1..len |-> ByteAt(file, start + i - 1)]

(* Python values held in the intermediate model *)
NoneV == [t |-> "None"]
IntV(v) == [t |-> "int", v |-> v]
BoolV(v) == [t |-> "bool", v |-> v]
StrV(s) == [t |-> "str", s |-> s]
RawV(prim, bytes) == [t |-> "raw", prim |-> prim, bytes |-> bytes]
ObjectReference(object_id) == [t |-> "ObjectReference", object_id |-> object_id]
ObjV(addr) == [t |-> "obj", addr |-> addr]

(* models.py *)
BinaryTypes == 0..7
PrimitiveTypes == (1..18) \ {4}
BinaryArrayTypes == 0..5
TypeInfo(binary_type, additional_info) ==
    [binary_type |-> binary_type, additional_info |-> additional_info]
ClassTypeInfo(name, library_id) == [t |-> "ClassTypeInfo", name |-> name, library_id |-> library_id]
MemberInfo(name, type_info) == [name |-> name, type_info |-> type_info]
ClassInfo(object_id, name, members, library_id) ==
    [object_id |-> object_id, name |-> name, members |-> members, library_id |-> library_id]
ArrayInfo(object_id, shape, lower_bounds, type, type_info) ==
    [object_id |-> object_id, shape |-> shape, lower_bounds |-> lower_bounds,
     type |-> type, type_info |-> type_info]
Instance(class_info, values) == [t |-> "Instance", class_info |-> class_info, values |-> values]
Array(array_info, values) == [t |-> "Array", array_info |-> array_info, values |-> values]

(* _DeserializationContext.__init__ *)
NewContext ==
    [root_id |-> << >>, header_id |-> << >>, major_version |-> << >>, minor_version |-> << >>,
     library_id_name_mappings |-> << >>, objects |-> << >>]

(* a Python dict is a function; d[k] = v *)
Put(d, k, v) == [x \in (DOMAIN d) \cup {k} |-> IF x = k THEN v ELSE d[x]]

set_header(c, root_id, header_id, major_version, minor_version) ==
    [c EXCEPT !.root_id = <<root_id>>, !.header_id = <<header_id>>,
              !.major_version = <<major_version>>, !.minor_version = <<minor_version>>]
add_library_id_name_mapping(c, id_, name) ==
    [c EXCEPT !.library_id_name_mappings = Put(@, id_, name)]

(* a context in which every library id resolves *)
library_id_resolvable_Always(c, id_) == id_ = id_

library_id_resolvable(c, id_) == id_ \in DOMAIN c.library_id_name_mappings
add_object(c, id_, instance) == [c EXCEPT !.objects = Put(@, id_, instance)]

(* the decoder's mutable state: the context and the objects it points to *)
DState(c, h) == [ctx |-> c, heap |-> h]

(* what a reader or handler produced: ok/err, the new position and state,   *)
(* and for a handler the pair (i, continue_): hasIter is i is not None,     *)
(* vals the values i yields                                                 *)
Res(p, s, hasIter, vals, cont) ==
    [ok |-> TRUE, err |-> NoErr, pos |-> p, s |-> s, hasIter |-> hasIter, vals |-> vals,
     cont |-> cont]
Fail(e, p, s) ==
    [ok |-> FALSE, err |-> e, pos |-> p, s |-> s, hasIter |-> FALSE, vals |-> << >>,
     cont |-> TRUE]

(* bytes.decode("utf-8") of ASCII bytes; any other byte is outside the model *)
DecodeStr(bytes) ==
    IF \A i \in 1..Len(bytes) : bytes[i] < 128
    THEN [ok |-> TRUE, s |-> bytes]
    ELSE [ok |-> FALSE, s |-> << >>]

(* the reader's result as a value: val is the decoded str *)
ReadString(file, p) ==
    LET Decoded(r) ==
            LET d == DecodeStr(Slice(file, r.start, r.len))
            IN  IF ~r.ok THEN [ok |-> FALSE, err |-> r.err, pos |-> r.pos, val |-> << >>]
                ELSE IF ~d.ok
                THEN [ok |-> FALSE, err |-> Raise("UnicodeDecodeError", << >>),
                      pos |-> r.pos, val |-> << >>]
                ELSE [ok |-> TRUE, err |-> NoErr, pos |-> r.pos, val |-> d.s]
    IN  Decoded(LengthPrefixedStringReader(file, p))

(* [reader(f) for _ in range(n)] *)
RECURSIVE ReadStrings(_, _, _)
ReadStrings(file, p, n) ==
    IF n <= 0 THEN [ok |-> TRUE, err |-> NoErr, pos |-> p, val |-> << >>]
    ELSE LET Both(r, rest) ==
                 IF ~rest.ok THEN rest
                 ELSE [ok |-> TRUE, err |-> NoErr, pos |-> rest.pos,
                       val |-> <<r.val>> \o rest.val]
             First(r) == IF ~r.ok THEN r ELSE Both(r, ReadStrings(file, r.pos, n - 1))
         IN  First(ReadString(file, p))

(* _ClassInfoReader.__call__ *)
ClassInfoReader(file, p) ==
    LET bad(r) == [ok |-> FALSE, err |-> r.err, pos |-> r.pos, object_id |-> 0,
                   name |-> << >>, member_names |-> << >>]
        Members(rn, rm) ==
            IF ~rm.ok THEN bad(rm)
            ELSE [ok |-> TRUE, err |-> NoErr, pos |-> rm.pos, object_id |-> I32(file, p),
                  name |-> rn.val, member_names |-> rm.val]
        Named(rn) ==
            IF ~rn.ok THEN bad(rn)
            ELSE IF ~read(file, rn.pos, 4).ok THEN bad(read(file, rn.pos, 4))
            ELSE Members(rn, ReadStrings(file, rn.pos + 4, I32(file, rn.pos)))
    IN  IF ~read(file, p, 4).ok THEN bad(read(file, p, 4))
        ELSE Named(ReadString(file, p + 4))

(* _ClassTypeInfoReader.__call__ *)
ClassTypeInfoReader(file, p) ==
    LET Named(rn) ==
            IF ~rn.ok THEN rn
            ELSE IF ~read(file, rn.pos, 4).ok
            THEN [ok |-> FALSE, err |-> read(file, rn.pos, 4).err,
                  pos |-> read(file, rn.pos, 4).pos, val |-> << >>]
            ELSE [ok |-> TRUE, err |-> NoErr, pos |-> rn.pos + 4,
                  val |-> ClassTypeInfo(rn.val, I32(file, rn.pos))]
    IN  Named(ReadString(file, p))

(* _MemberTypeInfoReader.read_primitive / read_primitive_array *)
ReadPrimitiveType(file, p) ==
    LET r == read(file, p, 1)
    IN  IF ~r.ok THEN [ok |-> FALSE, err |-> r.err, pos |-> r.pos, val |-> NoneV]
        ELSE IF ByteAt(file, p) \notin PrimitiveTypes
        THEN [ok |-> FALSE, err |-> Raise("InvalidStreamError", <<ByteAt(file, p)>>),
              pos |-> r.pos, val |-> NoneV]
        ELSE [ok |-> TRUE, err |-> NoErr, pos |-> r.pos, val |-> IntV(ByteAt(file, p))]

(* _MemberTypeInfoReader.read_additional_info (the same table serves        *)
(* BinaryArrayHandler.read_additional_info)                                 *)
read_additional_info(binary_type, file, p) ==
    LET AsStr(r) == [ok |-> r.ok, err |-> r.err, pos |-> r.pos, val |-> StrV(r.val)]
    IN  IF binary_type \in {0, 7} THEN ReadPrimitiveType(file, p)
        ELSE IF binary_type = 3 THEN AsStr(ReadString(file, p))
        ELSE IF binary_type = 4 THEN ClassTypeInfoReader(file, p)
        ELSE [ok |-> TRUE, err |-> NoErr, pos |-> p, val |-> NoneV]

(* _MemberTypeInfoReader.__call__: the tag bytes b were read at tags; the   *)
(* additional infos follow from p on, member by member                      *)
RECURSIVE ReadMemberInfos(_, _, _, _, _)
ReadMemberInfos(file, member_names, i, tags, p) ==
    LET binary_type == ByteAt(file, tags + i - 1)
        Both(ra, rest) ==
            IF ~rest.ok THEN rest
            ELSE [ok |-> TRUE, err |-> NoErr, pos |-> rest.pos,
                  val |-> <<MemberInfo(member_names[i], TypeInfo(binary_type, ra.val))>>
                           \o rest.val]
        First(ra) ==
            IF ~ra.ok THEN [ok |-> FALSE, err |-> ra.err, pos |-> ra.pos, val |-> << >>]
            ELSE Both(ra, ReadMemberInfos(file, member_names, i + 1, tags, ra.pos))
    IN  IF i > Len(member_names) THEN [ok |-> TRUE, err |-> NoErr, pos |-> p, val |-> << >>]
        ELSE IF binary_type \notin BinaryTypes
        THEN [ok |-> FALSE, err |-> Raise("InvalidStreamError", <<binary_type>>),
              pos |-> p, val |-> << >>]
        ELSE First(read_additional_info(binary_type, file, p))

MemberTypeInfoReader(member_names, file, p) ==
    LET r == read(file, p, Len(member_names))
    IN  IF ~r.ok THEN [ok |-> FALSE, err |-> r.err, pos |-> r.pos, val |-> << >>]
        ELSE ReadMemberInfos(file, member_names, 1, p, r.pos)

(* _UntypedPrimitiveValueReader: the reader of each PrimitiveType.  Values  *)
(* wider than 31 bits and floating-point values are kept as their bytes.    *)
PrimitiveSize(pt) ==
    CASE pt \in {1, 2, 10} -> 1
      [] pt \in {3, 7, 14} -> 2
      [] pt \in {8, 11, 15} -> 4
      [] OTHER -> 8

UntypedPrimitiveValueReader(primitive_type, file, p) ==
    LET n == PrimitiveSize(primitive_type)
        r == read(file, p, n)
        AsStr(rs) == [ok |-> rs.ok, err |-> rs.err, pos |-> rs.pos, val |-> StrV(rs.val)]
    IN  IF primitive_type \in {5, 17}
        THEN [ok |-> FALSE, err |-> Raise("NotImplementedError", << >>), pos |-> p, val |-> NoneV]
        ELSE IF primitive_type = 18 THEN AsStr(ReadString(file, p))
        ELSE IF ~r.ok THEN [ok |-> FALSE, err |-> r.err, pos |-> r.pos, val |-> NoneV]
        ELSE IF primitive_type = 13 /\ ByteAt(file, p + 7) >= 192
        THEN [ok |-> FALSE, err |-> Raise("InvalidStreamError", <<3>>), pos |-> r.pos, val |-> NoneV]
        ELSE [ok |-> TRUE, err |-> NoErr, pos |-> r.pos,
              val |-> CASE primitive_type = 1 -> BoolV(ByteAt(file, p) # 0)
                        [] primitive_type = 2 -> IntV(ByteAt(file, p))
                        [] primitive_type \in {3, 7} -> IntV(I16(file, p))
                        [] primitive_type = 8 -> IntV(I32(file, p))
                        [] primitive_type = 10 -> IntV(I8(file, p))
                        [] primitive_type = 14 -> IntV(U16(file, p))
                        [] OTHER -> RawV(primitive_type, Slice(file, p, n))]

----------------------------------------------------------------------------
(* Record handlers (handlers.py).  deserialize(code, ...) is                *)
(* handler.deserialize(ctx, f) of the handler class whose CODE is code.     *)

(* the CODEs of TOPLEVEL_HANDLERS and of MEMBER_RECORD_HANDLERS *)
ToplevelCodes == {0, 1, 2, 3, 4, 5, 6, 7, 11, 12, 15, 16, 17, 21, 22}
MemberRecordCodes == {8, 1, 2, 3, 4, 5, 6, 9, 10, 13, 14}

Alloc(s, obj) == DState(s.ctx, Append(s.heap, obj))
NewAddr(s) == Len(s.heap) + 1
SetValues(s, addr, vals) == DState(s.ctx, [s.heap EXCEPT ![addr].values = <<vals>>])
Register(s, id_, v) == DState(add_object(s.ctx, id_, v), s.heap)

MemberElements(members) ==
    [i \in 1..Len(members) |-> [type_info |-> members[i].type_info, n |-> 1]]

RECURSIVE Product(_)
Product(lengths) == IF lengths = << >> THEN 1 ELSE Head(lengths) * Product(Tail(lengths))

Int32s(file, p, n) == [i \in 1..n |-> I32(file, p + 4 * (i - 1))]

RECURSIVE deserialize(_, _, _, _)
RECURSIVE ElementValueReader(_, _, _, _)

(* _ElementValueReader.read_member_reference; read_string and read_object   *)
(* have the same body                                                       *)
read_member_reference(s, file, p) ==
    LET b == ByteAt(file, p)
        Checked(h) ==
            IF ~h.ok THEN h
            ELSE IF ~h.cont \/ ~h.hasIter THEN Fail(Raise("AssertionError", << >>), h.pos, h.s)
            ELSE h
    IN  IF ~read(file, p, 1).ok THEN Fail(read(file, p, 1).err, read(file, p, 1).pos, s)
        ELSE IF b \notin MemberRecordCodes THEN Fail(Raise("UnknownRecord", <<b>>), p + 1, s)
        ELSE Checked(deserialize(b, s, file, p + 1))

(* _ElementValueReader.read_primitive: c values of the primitive type *)
RECURSIVE read_primitive(_, _, _, _, _)
read_primitive(s, primitive_type, c, file, p) ==
    LET Both(r, rest) ==
            IF ~rest.ok THEN rest
            ELSE Res(rest.pos, s, TRUE, <<r.val>> \o rest.vals, TRUE)
        First(r) ==
            IF ~r.ok THEN Fail(r.err, r.pos, s)
            ELSE Both(r, read_primitive(s, primitive_type, c - 1, file, r.pos))
    IN  IF c <= 0 THEN Res(p, s, TRUE, << >>, TRUE)
        ELSE First(UntypedPrimitiveValueReader(primitive_type, file, p))

(* _ElementValueReader.read_system_class / read_class: member records until *)
(* c values were produced; every value of the last record is yielded        *)
RECURSIVE read_class(_, _, _, _)
read_class(s, c, file, p) ==
    LET Both(h, rest) ==
            IF ~rest.ok THEN rest
            ELSE Res(rest.pos, rest.s, TRUE, h.vals \o rest.vals, TRUE)
        First(h) ==
            IF ~h.ok THEN h
            ELSE Both(h, read_class(h.s, c - Len(h.vals), file, h.pos))
    IN  IF c <= 0 THEN Res(p, s, TRUE, << >>, TRUE)
        ELSE First(read_member_reference(s, file, p))

(* _ElementValueReader.readers[binary_type](self, ctx, type_info, n, f) *)
ReadElements(s, type_info, n, file, p) ==
    CASE type_info.binary_type = 0 ->
            read_primitive(s, type_info.additional_info.v, n, file, p)
      [] type_info.binary_type \in {1, 2} -> read_member_reference(s, file, p)
      [] type_info.binary_type \in {3, 4} -> read_class(s, n, file, p)
      [] OTHER -> Fail(Raise("NotImplementedError", << >>), p, s)

(* _ElementValueReader.__call__, consumed whole by the caller's list() *)
ElementValueReader(s, elements, file, p) ==
    LET Both(r, rest) ==
            IF ~rest.ok THEN rest
            ELSE Res(rest.pos, rest.s, TRUE, r.vals \o rest.vals, TRUE)
        First(r) ==
            IF ~r.ok THEN r
            ELSE Both(r, ElementValueReader(r.s, Tail(elements), file, r.pos))
    IN  IF elements = << >> THEN Res(p, s, TRUE, << >>, TRUE)
        ELSE First(ReadElements(s, Head(elements).type_info, Head(elements).n, file, p))

(* SerializedStreamHandler.deserialize *)
SerializedStreamHandler(s, file, p) ==
    LET r == read(file, p, 16)
        root_id == I32(file, p)
        header_id == I32(file, p + 4)
        major_version == I32(file, p + 8)
        minor_version == I32(file, p + 12)
    IN  IF ~r.ok THEN Fail(r.err, r.pos, s)
        ELSE IF major_version # 1 /\ minor_version # 0
        THEN Fail(Raise("VersionMismatch", <<major_version, minor_version>>), r.pos, s)
        ELSE Res(r.pos,
                 DState(set_header(s.ctx, root_id, header_id, major_version, minor_version),
                        s.heap),
                 FALSE, << >>, TRUE)

(* ClassWithIdHandler.deserialize *)
ClassWithIdHandler(s, file, p) ==
    LET r == read(file, p, 8)
        object_id == I32(file, p)
        metadata_id == I32(file, p + 4)
        that_object == s.ctx.objects[metadata_id]
        class_info == s.heap[that_object.addr].class_info
        Made(rv) ==
            IF ~rv.ok THEN rv
            ELSE Res(rv.pos,
                     Register(Alloc(rv.s, Instance(class_info, <<rv.vals>>)),
                              object_id, that_object),
                     TRUE, <<ObjV(NewAddr(rv.s))>>, TRUE)
    IN  IF ~r.ok THEN Fail(r.err, r.pos, s)
        ELSE IF metadata_id \notin DOMAIN s.ctx.objects
        THEN Fail(Raise("KeyError", <<metadata_id>>), r.pos, s)
        ELSE IF that_object.t # "obj" \/ s.heap[that_object.addr].t # "Instance"
        THEN Fail(Raise("AssertionError", << >>), r.pos, s)
        ELSE Made(ElementValueReader(s, MemberElements(class_info.members), file, r.pos))

(* a handler that registers the object after its elements were read *)
ClassWithMembersAndTypes_RegisterLate(withLibrary, s, file, p) ==
    LET addr == NewAddr(s)
        Filled(rv, class_info) ==
            IF ~rv.ok THEN rv
            ELSE Res(rv.pos,
                     Register(SetValues(rv.s, addr, rv.vals), class_info.object_id, ObjV(addr)),
                     TRUE, <<ObjV(addr)>>, TRUE)
        Values(class_info, p1) ==
            Filled(ElementValueReader(Alloc(s, Instance(class_info, << >>)),
                                      MemberElements(class_info.members), file, p1),
                   class_info)
        Typed(rc, rm) ==
            IF ~rm.ok THEN Fail(rm.err, rm.pos, s)
            ELSE IF ~withLibrary
            THEN Values(ClassInfo(rc.object_id, rc.name, rm.val, << >>), rm.pos)
            ELSE IF ~read(file, rm.pos, 4).ok
            THEN Fail(read(file, rm.pos, 4).err, read(file, rm.pos, 4).pos, s)
            ELSE IF ~library_id_resolvable(s.ctx, I32(file, rm.pos))
            THEN Fail(Raise("UnresolvableLibraryId", <<I32(file, rm.pos)>>), rm.pos + 4, s)
            ELSE Values(ClassInfo(rc.object_id, rc.name, rm.val, <<I32(file, rm.pos)>>),
                        rm.pos + 4)
        Described(rc) ==
            IF ~rc.ok THEN Fail(rc.err, rc.pos, s)
            ELSE Typed(rc, MemberTypeInfoReader(rc.member_names, file, rc.pos))
    IN  Described(ClassInfoReader(file, p))

(* SystemClassWithMembersAndTypesHandler.deserialize (withLibrary FALSE)    *)
(* and ClassWithMembersAndTypesHandler.deserialize (withLibrary TRUE)       *)
ClassWithMembersAndTypes(withLibrary, s, file, p) ==
    LET addr == NewAddr(s)
        Filled(rv) ==
            IF ~rv.ok THEN rv
            ELSE Res(rv.pos, SetValues(rv.s, addr, rv.vals), TRUE, <<ObjV(addr)>>, TRUE)
        Values(class_info, p1) ==
            Filled(ElementValueReader(
                       Register(Alloc(s, Instance(class_info, << >>)),
                                class_info.object_id, ObjV(addr)),
                       MemberElements(class_info.members), file, p1))
        Typed(rc, rm) ==
            IF ~rm.ok THEN Fail(rm.err, rm.pos, s)
            ELSE IF ~withLibrary
            THEN Values(ClassInfo(rc.object_id, rc.name, rm.val, << >>), rm.pos)
            ELSE IF ~read(file, rm.pos, 4).ok
            THEN Fail(read(file, rm.pos, 4).err, read(file, rm.pos, 4).pos, s)
            ELSE IF ~library_id_resolvable(s.ctx, I32(file, rm.pos))
            THEN Fail(Raise("UnresolvableLibraryId", <<I32(file, rm.pos)>>), rm.pos + 4, s)
            ELSE Values(ClassInfo(rc.object_id, rc.name, rm.val, <<I32(file, rm.pos)>>),
                        rm.pos + 4)
        Described(rc) ==
            IF ~rc.ok THEN Fail(rc.err, rc.pos, s)
            ELSE Typed(rc, MemberTypeInfoReader(rc.member_names, file, rc.pos))
    IN  Described(ClassInfoReader(file, p))

(* BinaryObjectStringHandler.deserialize *)
BinaryObjectStringHandler(s, file, p) ==
    LET r == read(file, p, 4)
        object_id == I32(file, p)
        Read(rs) ==
            IF ~rs.ok THEN Fail(rs.err, rs.pos, s)
            ELSE Res(rs.pos, Register(s, object_id, StrV(rs.val)), TRUE, <<StrV(rs.val)>>, TRUE)
    IN  IF ~r.ok THEN Fail(r.err, r.pos, s)
        ELSE Read(ReadString(file, r.pos))

(* BinaryArrayHandler.deserialize *)
BinaryArrayHandler(s, file, p) ==
    LET r == read(file, p, 9)
        object_id == I32(file, p)
        binary_array_type == ByteAt(file, p + 4)
        rank == I32(file, p + 5)
        offset == binary_array_type \in {3, 4, 5}
        rl == read(file, p + 9, IF offset THEN 4 * rank * 2 ELSE 4 * rank)
        lengths == Int32s(file, p + 9, rank)
        lower_bounds == IF offset THEN Int32s(file, p + 9 + 4 * rank, rank)
                        ELSE [i \in 1..rank |-> 0]
        binary_type == ByteAt(file, rl.pos)
        addr == NewAddr(s)
        Filled(rv) ==
            IF ~rv.ok THEN rv
            ELSE Res(rv.pos, SetValues(rv.s, addr, rv.vals), TRUE, <<ObjV(addr)>>, TRUE)
        Values(type_info, s1, p1) ==
            IF rank = 0 THEN Fail(Raise("TypeError", << >>), p1, s1)
            ELSE Filled(ElementValueReader(
                            s1, <<[type_info |-> type_info, n |-> Product(lengths)]>>,
                            file, p1))
        Typed(ra) ==
            IF ~ra.ok THEN Fail(ra.err, ra.pos, s)
            ELSE Values(TypeInfo(binary_type, ra.val),
                        Register(Alloc(s, Array(ArrayInfo(object_id, lengths, lower_bounds,
                                                          <<binary_array_type>>,
                                                          <<TypeInfo(binary_type, ra.val)>>),
                                                << >>)),
                                 object_id, ObjV(addr)),
                        ra.pos)
    IN  IF ~r.ok THEN Fail(r.err, r.pos, s)
        ELSE IF binary_array_type \notin BinaryArrayTypes
        THEN Fail(Raise("InvalidStreamError", <<binary_array_type>>), r.pos, s)
        ELSE IF rank < 0 THEN Fail(Raise("InvalidStreamError", <<rank>>), r.pos, s)
        ELSE IF ~rl.ok THEN Fail(rl.err, rl.pos, s)
        ELSE IF ~read(file, rl.pos, 1).ok
        THEN Fail(read(file, rl.pos, 1).err, read(file, rl.pos, 1).pos, s)
        ELSE IF binary_type \notin BinaryTypes
        THEN Fail(Raise("InvalidStreamError", <<binary_type>>), rl.pos + 1, s)
        ELSE Typed(read_additional_info(binary_type, file, rl.pos + 1))

(* MemberReferenceHandler.deserialize *)
MemberReferenceHandler(s, file, p) ==
    LET r == read(file, p, 4)
    IN  IF ~r.ok THEN Fail(r.err, r.pos, s)
        ELSE Res(r.pos, s, TRUE, <<ObjectReference(I32(file, p))>>, TRUE)

(* ObjectNullHandler.deserialize *)
ObjectNullHandler(s, file, p) == Res(p, s, TRUE, <<NoneV>>, TRUE)

(* a MessageEnd that lets the loop go on *)
MessageEndHandler_Continue(s, file, p) == Res(p, s, FALSE, << >>, TRUE)

(* MessageEndHandler.deserialize *)
MessageEndHandler(s, file, p) == Res(p, s, FALSE, << >>, FALSE)

(* BinaryLibraryHandler.deserialize *)
BinaryLibraryHandler(s, file, p) ==
    LET r == read(file, p, 4)
        library_id == I32(file, p)
        Read(rs) ==
            IF ~rs.ok THEN Fail(rs.err, rs.pos, s)
            ELSE Res(rs.pos,
                     DState(add_library_id_name_mapping(s.ctx, library_id, rs.val), s.heap),
                     FALSE, << >>, TRUE)
    IN  IF ~r.ok THEN Fail(r.err, r.pos, s)
        ELSE Read(ReadString(file, r.pos))

(* itertools.repeat(None, count) *)
Repeat(count) == [i \in 1..count |-> NoneV]

(* ObjectNullMultiple256Handler.deserialize *)
ObjectNullMultiple256Handler(s, file, p) ==
    LET r == read(file, p, 1)
    IN  IF ~r.ok THEN Fail(r.err, r.pos, s)
        ELSE Res(r.pos, s, TRUE, Repeat(ByteAt(file, p)), TRUE)

(* ObjectNullMultipleHandler.deserialize *)
ObjectNullMultipleHandler(s, file, p) ==
    LET r == read(file, p, 4)
    IN  IF ~r.ok THEN Fail(r.err, r.pos, s)
        ELSE Res(r.pos, s, TRUE, Repeat(I32(file, p)), TRUE)

(* ArraySinglePrimitiveHandler.deserialize, with read_array_info *)
ArraySinglePrimitiveHandler(s, file, p) ==
    LET r == read(file, p, 8)
        object_id == I32(file, p)
        length == I32(file, p + 4)
        addr == NewAddr(s)
        Filled(rv) ==
            IF ~rv.ok THEN rv
            ELSE Res(rv.pos, SetValues(rv.s, addr, rv.vals), TRUE, <<ObjV(addr)>>, TRUE)
        Typed(rp) ==
            IF ~rp.ok THEN Fail(rp.err, rp.pos, s)
            ELSE Filled(ElementValueReader(
                            Register(Alloc(s, Array(ArrayInfo(object_id, <<length>>, <<0>>,
                                                              <<0>>, <<TypeInfo(0, rp.val)>>),
                                                    << >>)),
                                     object_id, ObjV(addr)),
                            <<[type_info |-> TypeInfo(0, rp.val), n |-> length]>>,
                            file, rp.pos))
    IN  IF ~r.ok THEN Fail(r.err, r.pos, s)
        ELSE Typed(ReadPrimitiveType(file, r.pos))

(* the handlers that only raise NotImplementedError: SystemClassWithMembers *)
(* (2), ClassWithMembers (3), MemberPrimitiveTyped (8), ArraySingleObject   *)
(* (16), ArraySingleString (17), MethodCall (21), MethodReturn (22)         *)
NotImplementedHandler(s, file, p) == Fail(Raise("NotImplementedError", << >>), p, s)

deserialize(code_, s, file, p) ==
    CASE code_ = 0 -> SerializedStreamHandler(s, file, p)
      [] code_ = 1 -> ClassWithIdHandler(s, file, p)
      [] code_ = 4 -> ClassWithMembersAndTypes(FALSE, s, file, p)
      [] code_ = 5 -> ClassWithMembersAndTypes(TRUE, s, file, p)
      [] code_ = 6 -> BinaryObjectStringHandler(s, file, p)
      [] code_ = 7 -> BinaryArrayHandler(s, file, p)
      [] code_ = 9 -> MemberReferenceHandler(s, file, p)
      [] code_ = 10 -> ObjectNullHandler(s, file, p)
      [] code_ = 11 -> MessageEndHandler(s, file, p)
      [] code_ = 12 -> BinaryLibraryHandler(s, file, p)
      [] code_ = 13 -> ObjectNullMultiple256Handler(s, file, p)
      [] code_ = 14 -> ObjectNullMultipleHandler(s, file, p)
      [] code_ = 15 -> ArraySinglePrimitiveHandler(s, file, p)
      [] OTHER -> NotImplementedHandler(s, file, p)

----------------------------------------------------------------------------
(* Deserializer.__call__ (deserialization.py): the top-level loop, one      *)
(* action per statement of the loop.                                        *)

NoIter == [present |-> FALSE, vals |-> << >>]

LoopTest ==
    /\ pc = "loop_test"
    /\ IF continue_
       THEN pc' = "read_code" /\ ret' = ret
       ELSE pc' = "returned" /\ ret' = [t |-> "ctx"]
    /\ UNCHANGED <<brVars, xmlVars>>
    /\ UNCHANGED <<f, pos, err, arg, ctx, heap, code, iter, continue_, dispatched>>

(* a loop that skips a code byte it has no handler for *)
ReadCode_SkipUnknown ==
    /\ pc = "read_code"
    /\ IF Size(f) - pos < 1
       THEN /\ err' = Raise("UnexpectedEOF", <<1, 0>>)
            /\ pc' = "failed"
            /\ UNCHANGED <<pos, code>>
       ELSE /\ pos' = pos + 1
            /\ code' = <<ByteAt(f, pos)>>
            /\ err' = err
            /\ IF ByteAt(f, pos) \notin ToplevelCodes
               THEN pc' = "read_code"
               ELSE pc' = "invoke"
    /\ UNCHANGED <<brVars, xmlVars>>
    /\ UNCHANGED <<f, arg, ret, ctx, heap, iter, continue_, dispatched>>

ReadCode ==
    /\ pc = "read_code"
    /\ IF Size(f) - pos < 1
       THEN /\ err' = Raise("UnexpectedEOF", <<1, 0>>)
            /\ pc' = "failed"
            /\ UNCHANGED <<pos, code>>
       ELSE /\ pos' = pos + 1
            /\ code' = <<ByteAt(f, pos)>>
            /\ IF ByteAt(f, pos) \notin ToplevelCodes
               THEN err' = Raise("UnknownRecord", <<ByteAt(f, pos)>>) /\ pc' = "failed"
               ELSE err' = err /\ pc' = "invoke"
    /\ UNCHANGED <<brVars, xmlVars>>
    /\ UNCHANGED <<f, arg, ret, ctx, heap, iter, continue_, dispatched>>

InvokeHandler ==
    /\ pc = "invoke"
    /\ LET Handled(h) ==
               /\ ctx' = h.s.ctx
               /\ heap' = h.s.heap
               /\ pos' = h.pos
               /\ err' = h.err
               /\ dispatched' = Append(dispatched, [code |-> code[1], at |-> pos - 1])
               /\ IF h.ok
                  THEN /\ iter' = [present |-> h.hasIter, vals |-> h.vals]
                       /\ continue_' = h.cont
                       /\ pc' = "drain"
                  ELSE /\ pc' = "failed"
                       /\ UNCHANGED <<iter, continue_>>
       IN  Handled(deserialize(code[1], DState(ctx, heap), f, pos))
    /\ UNCHANGED <<brVars, xmlVars>>
    /\ UNCHANGED <<f, arg, ret, code>>

DrainNext ==
    /\ pc = "drain"
    /\ iter.present /\ iter.vals # << >>
    /\ iter' = [iter EXCEPT !.vals = Tail(@)]
    /\ UNCHANGED <<brVars, xmlVars>>
    /\ UNCHANGED <<f, pos, pc, err, arg, ret, ctx, heap, code, continue_, dispatched>>

DrainDone ==
    /\ pc = "drain"
    /\ ~iter.present \/ iter.vals = << >>
    /\ pc' = "loop_test"
    /\ UNCHANGED <<brVars, xmlVars>>
    /\ UNCHANGED <<f, pos, err, arg, ret, ctx, heap, code, iter, continue_, dispatched>>

DecodeIdle ==
    /\ ctx = NewContext
    /\ heap = << >>
    /\ code = << >>
    /\ iter = NoIter
    /\ continue_ = TRUE
    /\ dispatched = << >>

BridgeIdle ==
    /\ bridge = << >>
    /\ calls = << >>

(* no XML decode is running *)
XmlIdle ==
    /\ events = << >>
    /\ handlers = << >>
    /\ handler = 0
    /\ cli = << >>
    /\ pushed = << >>
    /\ opened = << >>

----------------------------------------------------------------------------
(* Streams for the top-level loop: up to MaxRecords records of a pool,      *)
(* written as the bytes the format prescribes.                              *)

MaxRecords == 3

(* struct.pack("<l", n) *)
Int32Bytes(n) ==
    <<n % 256, (n \div 256) % 256, (n \div 65536) % 256, (n \div 16777216) % 256>>

(* a length-prefixed string of fewer than 128 ASCII characters *)
StringBytes(s) == <<Len(s)>> \o s

(* "N.A", "x", "r", "hi", "L" *)
NameNA == <<78, 46, 65>>
NameX == <<120>>
NameR == <<114>>
TextHi == <<104, 105>>
NameL == <<76>>

HeaderRecord(major, minor) ==
    <<0>> \o Int32Bytes(1) \o Int32Bytes(-1) \o Int32Bytes(major) \o Int32Bytes(minor)

HeaderVersions == {<<1, 0>>, <<1, 1>>, <<2, 0>>, <<2, 1>>}

RecordPool ==
    {HeaderRecord(v[1], v[2]) : v \in HeaderVersions}
    \cup {
        <<11>>,
        <<255>>,
        <<10>>,
        <<16>>,
        <<12>> \o Int32Bytes(2) \o StringBytes(NameL),
        <<6>> \o Int32Bytes(1) \o StringBytes(TextHi),
        <<4>> \o Int32Bytes(1) \o StringBytes(NameNA) \o Int32Bytes(1) \o StringBytes(NameX)
             \o <<0, 8>> \o Int32Bytes(7),
        <<5>> \o Int32Bytes(3) \o StringBytes(NameNA) \o Int32Bytes(1) \o StringBytes(NameR)
             \o <<2>> \o Int32Bytes(2) \o <<9>> \o Int32Bytes(3),
        <<1>> \o Int32Bytes(4) \o Int32Bytes(1) \o Int32Bytes(5),
        <<15>> \o Int32Bytes(5) \o Int32Bytes(2) \o <<2, 1, 2>>,
        <<7>> \o Int32Bytes(6) \o <<0>> \o Int32Bytes(1) \o Int32Bytes(2) \o <<2, 13, 2>>
    }

RECURSIVE Concat(_)
Concat(seqs) == IF seqs = << >> THEN << >> ELSE Head(seqs) \o Concat(Tail(seqs))

(* whole records, or the same bytes with the last one missing *)
Streams ==
    {SubSeq(Concat(recs), 1, Len(Concat(recs)) - cut) :
        recs \in UNION {[1..k -> RecordPool] : k \in 1..MaxRecords}, cut \in {0, 1}}

NoArg == [kind |-> "none"]

InitDecode ==
    /\ f \in {File(data, 0) : data \in Streams}
    /\ pos = 0
    /\ pc = "loop_test"
    /\ err = NoErr
    /\ arg = NoArg
    /\ ret = NoRet
    /\ DecodeIdle
    /\ BridgeIdle
    /\ XmlIdle

NextDecode ==
    \/ LoopTest
    \/ ReadCode
    \/ InvokeHandler
    \/ DrainNext
    \/ DrainDone

SpecDecode == InitDecode /\ [][NextDecode]_vars

LastDispatched == dispatched[Len(dispatched)]
Drained == ~iter.present \/ iter.vals = << >>

(* C4: the top-level loop returns the context exactly when a MessageEnd     *)
(* record (code 11) has been dispatched: MessageEnd is the only handler     *)
(* whose result has continue false, nothing is dispatched after it, the     *)
(* iterator of every handler is drained before the next code byte is read,  *)
(* and the stream position at return is the byte after the MessageEnd code. *)
C4_ReturnsExactlyAtMessageEnd ==
    /\ pc = "returned" =>
            /\ dispatched # << >>
            /\ LastDispatched.code = 11
            /\ pos = LastDispatched.at + 1
            /\ ret = [t |-> "ctx"]
            /\ err = NoErr
    /\ (pc \in {"drain", "loop_test"} /\ dispatched # << >>) =>
            (continue_ = FALSE <=> LastDispatched.code = 11)
    /\ (dispatched # << >> /\ LastDispatched.code = 11) =>
            /\ pc \in {"drain", "loop_test", "returned"}
            /\ err = NoErr
            /\ pos = LastDispatched.at + 1
    /\ \A i \in 1..(Len(dispatched) - 1) : dispatched[i].code # 11
    /\ pc \in {"loop_test", "read_code", "invoke", "returned"} => Drained

(* a run that decoded a record with an iterator, then MessageEnd, and       *)
(* returned with bytes of the stream left unread                            *)
C4_Witness ==
    /\ pc = "returned"
    /\ Len(dispatched) >= 2
    /\ \E i \in 1..Len(dispatched) : dispatched[i].code \in {4, 6, 7, 15}
    /\ pos < Size(f)

(* C5: a code byte with no registered top-level handler raises              *)
(* UnknownRecord carrying that code: no handler is invoked for it, the      *)
(* context is not returned and nothing after the code byte is read.         *)
C5_UnknownRecordStopsDecoding ==
    \A c \in (0..255) \ ToplevelCodes :
        code = <<c>> =>
            /\ pc = "failed"
            /\ err = Raise("UnknownRecord", <<c>>)
            /\ ret = NoRet
            /\ pos >= 1 /\ ByteAt(f, pos - 1) = c
            /\ \A i \in 1..Len(dispatched) : dispatched[i].at # pos - 1

(* 0xFF met after at least one decoded record, with bytes left behind it *)
C5_Witness ==
    /\ code = <<255>>
    /\ pc = "failed"
    /\ err = Raise("UnknownRecord", <<255>>)
    /\ Len(dispatched) >= 1
    /\ pos < Size(f)

(* C6: a header whose version is not exactly (1, 0) raises VersionMismatch  *)
(* and leaves root_id, header_id, major_version and minor_version unset.    *)
C6_VersionMismatchRejected ==
    (/\ dispatched # << >>
     /\ LastDispatched.code = 0
     /\ \A i \in 1..(Len(dispatched) - 1) : dispatched[i].code # 0
     /\ Size(f) >= LastDispatched.at + 17
     /\ <<I32(f, LastDispatched.at + 9), I32(f, LastDispatched.at + 13)>> # <<1, 0>>)
    => /\ pc = "failed"
       /\ err = Raise("VersionMismatch",
                      <<I32(f, LastDispatched.at + 9), I32(f, LastDispatched.at + 13)>>)
       /\ ctx.root_id = << >> /\ ctx.header_id = << >>
       /\ ctx.major_version = << >> /\ ctx.minor_version = << >>

----------------------------------------------------------------------------
(* Streams of nested records for the top-level loop: a record in a member   *)
(* position of a class record, records at the top level, arrays followed by *)
(* member records, class records with and without their library, and        *)
(* ClassWithId records; arg tells how the stream was made.                  *)

(* the bytes of a class record up to its element values: the members are    *)
(* named "x" and "r" and have the binary types tags, with the additional    *)
(* infos infos; library is << >> for a SystemClassWithMembersAndTypes       *)
ClassRecordBytes(object_id, tags, infos, library) ==
    (IF library = << >> THEN <<4>> ELSE <<5>>)
    \o Int32Bytes(object_id) \o StringBytes(NameNA) \o Int32Bytes(Len(tags))
    \o Concat([i \in 1..Len(tags) |-> StringBytes(IF i = 1 THEN NameX ELSE NameR)])
    \o tags \o infos
    \o (IF library = << >> THEN << >> ELSE Int32Bytes(library[1]))

(* a BinaryArray record up to its element values: a single-dimensional      *)
(* array of length elements of the binary type tag                          *)
ArrayRecordBytes(object_id, length, tag, info) ==
    <<7>> \o Int32Bytes(object_id) \o <<0>> \o Int32Bytes(1) \o Int32Bytes(length)
    \o <<tag>> \o info

BinaryLibraryBytes(library_id) == <<12>> \o Int32Bytes(library_id) \o StringBytes(NameL)

(* a record of code b with what the format puts after the code; the object  *)
(* it makes has the id 2 and it refers to the object 1                      *)
RecordBytes(b) ==
    CASE b = 1 -> <<1>> \o Int32Bytes(2) \o Int32Bytes(1) \o <<10>>
      [] b = 4 -> ClassRecordBytes(2, << >>, << >>, << >>)
      [] b = 5 -> ClassRecordBytes(2, << >>, << >>, <<9>>)
      [] b = 6 -> <<6>> \o Int32Bytes(2) \o StringBytes(TextHi)
      [] b = 7 -> ArrayRecordBytes(2, 1, 0, <<2>>) \o <<5>>
      [] b = 9 -> <<9>> \o Int32Bytes(1)
      [] b = 12 -> BinaryLibraryBytes(9)
      [] b = 13 -> <<13, 1>>
      [] b = 14 -> <<14>> \o Int32Bytes(1)
      [] b = 15 -> <<15>> \o Int32Bytes(2) \o Int32Bytes(1) \o <<2, 5>>
      [] OTHER -> <<b>>

RecordCodes == (0..23) \cup {255}

(* the binary types of the elements of an array and their additional infos: *)
(* Primitive (Byte), String, Object, SystemClass ("N.A"), Class ("N.A", 2)  *)
ElementTypes ==
    {<<0, <<2>>>>, <<1, << >>>>, <<2, << >>>>, <<3, StringBytes(NameNA)>>,
     <<4, StringBytes(NameNA) \o Int32Bytes(2)>>}

(* the records that follow an array: a null, two and three nulls in one     *)
(* record, a string, a reference                                            *)
MaxLength == 2
MaxMemberRecords == 2
MemberRecordPool ==
    {<<10>>, <<13, 2>>, <<13, 3>>, <<14>> \o Int32Bytes(2), RecordBytes(6), RecordBytes(9)}
MemberRecords == UNION {[1..k -> MemberRecordPool] : k \in 0..MaxMemberRecords}

RecordInput(kind, stream, probe) == [kind |-> kind, stream |-> stream, probe |-> probe]

(* every prefix of a stream *)
Truncations(kind, stream, probe) ==
    {RecordInput(kind, SubSeq(stream, 1, k), probe) : k \in 0..Len(stream)}

(* a class with the Object member x, whose value is the record of code b;   *)
(* probe is the position of b                                               *)
MemberInputs ==
    UNION {Truncations("member",
                       library \o ClassRecordBytes(1, <<2>>, << >>, << >>) \o RecordBytes(b)
                       \o <<11>>,
                       Len(library) + Len(ClassRecordBytes(1, <<2>>, << >>, << >>))) :
               b \in RecordCodes, library \in {<< >>, BinaryLibraryBytes(9)}}

(* a class record and the record of code c after it, at the top level *)
ToplevelInputs ==
    {RecordInput("toplevel",
                 ClassRecordBytes(1, <<2>>, << >>, << >>) \o <<10>> \o RecordBytes(c) \o <<11>>,
                 Len(ClassRecordBytes(1, <<2>>, << >>, << >>)) + 1) : c \in RecordCodes}

(* an array and the records after it *)
ArrayInputs ==
    {RecordInput("array",
                 ArrayRecordBytes(3, n, t[1], t[2]) \o Concat(records) \o <<11>>, 0) :
         n \in 0..MaxLength, t \in ElementTypes, records \in MemberRecords}

(* a ClassWithMembersAndTypes of the library 2 or 3, with a BinaryLibrary   *)
(* record before it, after it or nowhere                                    *)
LibraryInputs ==
    UNION {Truncations("library",
                       Concat(before) \o ClassRecordBytes(1, <<2>>, << >>, <<l>>) \o <<10>>
                       \o after \o <<11>>,
                       Len(Concat(before))) :
               l \in {2, 3},
               before \in UNION {[1..k -> {BinaryLibraryBytes(2), BinaryLibraryBytes(3)}] :
                                    k \in 0..2},
               after \in {<< >>, BinaryLibraryBytes(2)}}

(* a class of the object 1 with an Int32 and an Object member, and          *)
(* ClassWithId records made from it and from one another                    *)
CloneInputs ==
    UNION {Truncations("clone",
                       ClassRecordBytes(1, <<0, 2>>, <<8>>, << >>) \o Int32Bytes(7) \o <<10>>
                       \o Concat([i \in 1..Len(ids) |->
                                     <<1>> \o Int32Bytes(ids[i][1]) \o Int32Bytes(ids[i][2])
                                     \o Int32Bytes(5) \o RecordBytes(9)])
                       \o <<11>>,
                       Len(ClassRecordBytes(1, <<0, 2>>, <<8>>, << >>)) + 5) :
               ids \in UNION {[1..k -> {<<2, 1>>, <<1, 1>>, <<3, 2>>, <<2, 3>>}] : k \in 1..2}}

RecordInputs == MemberInputs \cup ToplevelInputs \cup ArrayInputs \cup LibraryInputs \cup CloneInputs

InitRecords ==
    /\ arg \in RecordInputs
    /\ f = File(arg.stream, 0)
    /\ pos = 0
    /\ pc = "loop_test"
    /\ err = NoErr
    /\ ret = NoRet
    /\ DecodeIdle
    /\ BridgeIdle
    /\ XmlIdle

SpecRecords == InitRecords /\ [][NextDecode]_vars

(* the object_id an Instance or an Array was read with *)
ObjectIdOf(object) ==
    IF object.t = "Instance" THEN object.class_info.object_id ELSE object.array_info.object_id

(* the object at addr is the one registered under its object_id, unless a   *)
(* record read after it has taken the same id                               *)
RegisteredAt(addr) ==
    /\ ObjectIdOf(heap[addr]) \in DOMAIN ctx.objects
    /\ \/ ctx.objects[ObjectIdOf(heap[addr])] = ObjV(addr)
       \/ ctx.objects[ObjectIdOf(heap[addr])].t = "str"
       \/ \E other \in DOMAIN heap :
              /\ other > addr
              /\ ctx.objects[ObjectIdOf(heap[addr])] = ObjV(other)

(* C22: the handlers of the composite records (codes 4, 5, 7 and 15)        *)
(* register the object under its object_id, with its values still unset,    *)
(* before they read the element values: wherever the reading of the         *)
(* elements stops, an object whose values are unset is in the object table; *)
(* and the values read are attached to that registered object.              *)
C22_RegisteredBeforeElements ==
    /\ \A addr \in DOMAIN heap : heap[addr].values = << >> => RegisteredAt(addr)
    /\ (/\ pc = "drain"
        /\ LastDispatched.code \in {4, 5, 7, 15}
        /\ iter.present /\ iter.vals # << >>)
       => /\ iter.vals[1].t = "obj"
          /\ heap[iter.vals[1].addr].values # << >>
          /\ ctx.objects[ObjectIdOf(heap[iter.vals[1].addr])] = iter.vals[1]

(* a ClassWithId record in a member position of the class record 1 has made *)
(* its instance from the object 1, whose elements were still being read     *)
C22_Witness ==
    /\ pc = "drain"
    /\ LastDispatched.code = 4
    /\ \E addr \in DOMAIN heap :
           /\ heap[addr].values # << >>
           /\ ObjectIdOf(heap[addr]) = 1
           /\ \E i \in DOMAIN heap[addr].values[1] :
                  /\ heap[addr].values[1][i].t = "obj"
                  /\ heap[addr].values[1][i].addr # addr
                  /\ heap[heap[addr].values[1][i].addr].class_info = heap[addr].class_info

(* C23: when a ClassWithId record (object_id o, metadata_id m) has been     *)
(* processed, objects[o] is the Instance built for this record, which has   *)
(* the ClassInfo of the Instance registered at m and the values read from   *)
(* this record; objects[m] and the objects made before are unchanged.       *)
C23_ClassWithIdRegistersClone ==
    [][(pc = "invoke" /\ code = <<1>> /\ pc' = "drain") =>
        LET o == I32(f, pos)
            m == I32(f, pos + 4)
            new == iter'.vals[1]
        IN  /\ new.t = "obj"
            /\ new.addr \notin DOMAIN heap
            /\ heap'[new.addr].class_info = heap[ctx.objects[m].addr].class_info
            /\ heap'[new.addr].values # << >>
            /\ \A addr \in DOMAIN heap : heap'[addr] = heap[addr]
            /\ o # m => ctx'.objects[m] = ctx.objects[m]
            /\ ctx'.objects[o] = new]_vars

(* the slots an object has for its element values: the sum of the           *)
(* cardinalities its handler passes to the ElementValueReader               *)
SlotsOf(object) ==
    IF object.t = "Array" THEN Product(object.array_info.shape)
    ELSE Len(object.class_info.members)

(* C24: on every stream on which the reading of the elements succeeds, the  *)
(* ElementValueReader yields exactly as many values as the sum of the       *)
(* cardinalities it was called with: an object whose values are set has one *)
(* value for each of its slots, whatever the element types are (String and  *)
(* Object with a cardinality other than 1 too) and whatever null-multiple   *)
(* records supply them.                                                     *)
C24_OneValuePerSlot ==
    \A addr \in DOMAIN heap :
        heap[addr].values # << >> => Len(heap[addr].values[1]) = SlotsOf(heap[addr])

(* the codes the claims name: the records of a member value position, and   *)
(* the records the top-level loop knows without implementing them           *)
MemberPositionCodes == {1, 2, 3, 4, 5, 6, 7, 8, 9, 10, 13, 14}
UnimplementedToplevelCodes == {2, 3, 8, 16, 17, 21, 22}

(* the stream holds the code at the probe, and the code *)
ProbeRead == arg.probe < Len(arg.stream)
ProbeCode == arg.stream[arg.probe + 1]

(* the error of a code that no handler is registered for, raised as soon as *)
(* the code at the probe is read                                            *)
UnknownAtProbe ==
    /\ pc = "failed"
    /\ err = Raise("UnknownRecord", <<ProbeCode>>)
    /\ pos = arg.probe + 1

(* the handler of the class record whose member value is at the probe has   *)
(* just run                                                                 *)
MemberPositionRead ==
    /\ arg.kind = "member"
    /\ ProbeRead
    /\ pc \in {"drain", "failed"}
    /\ dispatched # << >>
    /\ LastDispatched.code = 4
    /\ LastDispatched.at + Len(ClassRecordBytes(1, <<2>>, << >>, << >>)) = arg.probe

(* C25: in a member value position (the value of the Object member of a     *)
(* class record), a record code is dispatched to a record handler if and    *)
(* only if it is one of 1, 2, 3, 4, 5, 6, 7, 8, 9, 10, 13, 14; every other  *)
(* code fails with UnknownRecord(code).                                     *)
C25_MemberPositionDispatch ==
    MemberPositionRead => (ProbeCode \notin MemberPositionCodes <=> UnknownAtProbe)

(* the code at the probe has been read by the top-level loop *)
ToplevelPositionRead ==
    /\ arg.kind = "toplevel"
    /\ code = <<ProbeCode>>
    /\ pos = arg.probe + 1

(* C26: in the top-level loop, each of the record codes 2, 3, 8, 16, 17, 21 *)
(* and 22 is recognised as a known record (its handler is invoked) and      *)
(* fails with NotImplementedError, not with UnknownRecord.                  *)
C26_KnownButUnimplemented ==
    (ToplevelPositionRead /\ ProbeCode \in UnimplementedToplevelCodes)
    => \/ pc = "invoke"
       \/ /\ pc = "failed"
          /\ err = Raise("NotImplementedError", << >>)
          /\ LastDispatched = [code |-> ProbeCode, at |-> arg.probe]

(* where the library id of the ClassWithMembersAndTypes record read at p    *)
(* stands: after the class info and the member type infos                   *)
LibraryIdPosition(file, p) ==
    MemberTypeInfoReader(ClassInfoReader(file, p).member_names, file,
                         ClassInfoReader(file, p).pos).pos

(* the stream holds the record at p up to its library id *)
LibraryIdRead(file, p) ==
    /\ ClassInfoReader(file, p).ok
    /\ MemberTypeInfoReader(ClassInfoReader(file, p).member_names, file,
                            ClassInfoReader(file, p).pos).ok
    /\ read(file, LibraryIdPosition(file, p), 4).ok

(* a BinaryLibrary record of the id was processed earlier in this decode *)
LibraryProcessed(id_) ==
    \E i \in DOMAIN dispatched :
        dispatched[i].code = 12 /\ I32(f, dispatched[i].at + 1) = id_

(* C27: a ClassWithMembersAndTypes record (code 5) of the library id L is   *)
(* accepted only if a BinaryLibrary record (code 12) of the id L was        *)
(* processed earlier in the same decode; otherwise it fails with            *)
(* UnresolvableLibraryId(L) before its object_id is registered and before   *)
(* any of its element values is read: the object table and the objects are  *)
(* unchanged and the stream stands right after the library id.              *)
C27_LibraryResolvedFirst ==
    [][(pc = "invoke" /\ code = <<5>> /\ LibraryIdRead(f, pos)) =>
        LET at == LibraryIdPosition(f, pos)
            L == I32(f, at)
        IN  IF LibraryProcessed(L)
            THEN err'.kind # "UnresolvableLibraryId"
            ELSE /\ pc' = "failed"
                 /\ err' = Raise("UnresolvableLibraryId", <<L>>)
                 /\ ctx'.objects = ctx.objects
                 /\ heap' = heap
                 /\ pos' = at + 4]_vars

(* a class record of the library 3 was refused although a BinaryLibrary     *)
(* record, of the library 2, had been processed                             *)
C27_Witness ==
    /\ pc = "failed"
    /\ err = Raise("UnresolvableLibraryId", <<3>>)
    /\ LastDispatched.code = 5
    /\ LibraryProcessed(2)
    /\ ~LibraryProcessed(3)

----------------------------------------------------------------------------
(* Class names (bridge.py).  A str is the sequence of its code points.      *)

(* the characters the class-name grammar names: tab, space, "+", ",", "-",  *)
(* ".", "0".."9", "=", "[", "]", "`"                                        *)
IsSpace(c) == c \in {9, 32}
IsSpecial(c) == c \in {91, 93, 44}
IsDigit(c) == c \in 48..57

(* str.partition(sep) and str.rpartition(sep) for a one-character sep:      *)
(* <<head, found, tail>>                                                    *)
partition(s, sep) ==
    IF \E i \in 1..Len(s) : s[i] = sep
    THEN LET i == CHOOSE i \in 1..Len(s) : s[i] = sep /\ \A j \in 1..(i - 1) : s[j] # sep
         IN  <<SubSeq(s, 1, i - 1), TRUE, SubSeq(s, i + 1, Len(s))>>
    ELSE <<s, FALSE, << >>>>
rpartition(s, sep) ==
    IF \E i \in 1..Len(s) : s[i] = sep
    THEN LET i == CHOOSE i \in 1..Len(s) : s[i] = sep /\ \A j \in (i + 1)..Len(s) : s[j] # sep
         IN  <<SubSeq(s, 1, i - 1), TRUE, SubSeq(s, i + 1, Len(s))>>
    ELSE << << >>, FALSE, s>>

(* str.split(",") *)
RECURSIVE split(_)
split(s) ==
    IF partition(s, 44)[2] THEN <<partition(s, 44)[1]>> \o split(partition(s, 44)[3])
    ELSE <<s>>

(* str.strip() *)
RECURSIVE strip(_)
strip(s) ==
    IF s = << >> THEN s
    ELSE IF Head(s) \in {9, 10, 11, 12, 13, 32} THEN strip(Tail(s))
    ELSE IF s[Len(s)] \in {9, 10, 11, 12, 13, 32} THEN strip(SubSeq(s, 1, Len(s) - 1))
    ELSE s

(* ClassNameToken *)
TERMINAL == 0
LITERAL == 1
WHITESPACE == 2
COMMA == 3
LBRACKET == 4
RBRACKET == 5

(* the length of the match of [ \t]+ or of [^\[\], \t]+ at position i *)
RECURSIVE RunLength(_, _, _)
RunLength(value, i, space) ==
    IF i > Len(value) \/ IsSpecial(value[i]) \/ IsSpace(value[i]) # space THEN 0
    ELSE 1 + RunLength(value, i + 1, space)

(* tokenize_class_name: the tokens (kind, col, text) from position i on *)
RECURSIVE tokenize_class_name(_, _)
tokenize_class_name(value, i) ==
    IF i > Len(value) THEN << <<TERMINAL, Len(value), << >>>> >>
    ELSE LET n == IF IsSpecial(value[i]) THEN 1 ELSE RunLength(value, i, IsSpace(value[i]))
             c == SubSeq(value, i, i + n - 1)
             kind == CASE c = <<32>> \/ c = <<9>> -> WHITESPACE
                       [] c = <<44>> -> COMMA
                       [] c = <<91>> -> LBRACKET
                       [] c = <<93>> -> RBRACKET
                       [] OTHER -> LITERAL
         IN  << <<kind, i - 1, c>> >> \o tokenize_class_name(value, i + n)

(* an element of the intermediate form: a str or a (nested) list *)
StrTok(s) == [t |-> "str", v |-> s]
ListTok(l) == [t |-> "list", v |-> l]

NoVal == [t |-> "none"]
BOk(v) == [ok |-> TRUE, err |-> NoErr, val |-> v]
BErr(kind, args) == [ok |-> FALSE, err |-> Raise(kind, args), val |-> NoVal]

(* _parse_class_name_into_intermediate_form: the dispatch loop over the     *)
(* tokens toks from index k on; dispatch is 0 for state_0 and 1 for         *)
(* state_1; a bracket met in state_1 is pushed back and met again in        *)
(* state_0                                                                  *)
RECURSIVE IntermediateLoop(_, _, _, _, _)
IntermediateLoop(toks, k, dispatch, tokens, stack) ==
    IF k > Len(toks) THEN BOk(tokens)
    ELSE LET kind == toks[k][1]
         IN  IF dispatch = 0
             THEN CASE kind = WHITESPACE -> IntermediateLoop(toks, k + 1, 0, tokens, stack)
                    [] kind = COMMA -> BErr("BridgeError", <<"unexpected token", kind, toks[k][2] + 1>>)
                    [] kind = LBRACKET ->
                          IntermediateLoop(toks, k + 1, 0, << >>, Append(stack, tokens))
                    [] kind = RBRACKET ->
                          IF stack = << >>
                          THEN BErr("BridgeError", <<"unexpected token", kind, toks[k][2] + 1>>)
                          ELSE IntermediateLoop(toks, k + 1, 1,
                                                Append(stack[Len(stack)], ListTok(tokens)),
                                                SubSeq(stack, 1, Len(stack) - 1))
                    [] kind = LITERAL ->
                          IntermediateLoop(toks, k + 1, 1, Append(tokens, StrTok(toks[k][3])), stack)
                    [] OTHER ->
                          IF stack # << >> THEN BErr("BridgeError", <<"unclosed bracket">>)
                          ELSE BOk(tokens)
             ELSE CASE kind = WHITESPACE -> IntermediateLoop(toks, k + 1, 1, tokens, stack)
                    [] kind = COMMA -> IntermediateLoop(toks, k + 1, 0, tokens, stack)
                    [] kind \in {LBRACKET, RBRACKET} -> IntermediateLoop(toks, k, 0, tokens, stack)
                    [] kind = TERMINAL -> BOk(tokens)
                    [] OTHER -> BErr("BridgeError", <<"unexpected token", kind, toks[k][2] + 1>>)

parse_class_name_into_intermediate_form(value) ==
    IntermediateLoop(tokenize_class_name(value, 1), 1, 0, << >>, << >>)

(* PropertiesRepr, LibraryInfo, ParametrizedClassInfo *)
PropertiesRepr(items, mappings) == [items |-> items, mappings |-> mappings]
LibraryInfo(name, version, culture, public_key_token) ==
    [name |-> name, version |-> version, culture |-> culture,
     public_key_token |-> public_key_token]
ParametrizedClassInfo(name, parameters, library) ==
    [name |-> name, parameters |-> parameters, library |-> library]

(* the keys "Version", "Culture" and "PublicKeyToken" *)
KeyVersion == <<86, 101, 114, 115, 105, 111, 110>>
KeyCulture == <<67, 117, 108, 116, 117, 114, 101>>
KeyPublicKeyToken == <<80, 117, 98, 108, 105, 99, 75, 101, 121, 84, 111, 107, 101, 110>>

(* parse_properties: the loop over csv from index i on *)
RECURSIVE PropertiesLoop(_, _, _, _, _)
PropertiesLoop(csv, i, items_part, items, mappings) ==
    IF i > Len(csv) THEN BOk(PropertiesRepr(items, mappings))
    ELSE IF csv[i].t # "str"
    THEN BErr("BridgeError", <<"invalid property representation">>)
    ELSE LET KSV(ksv) ==
                 IF items_part /\ ~ksv[2]
                 THEN PropertiesLoop(csv, i + 1, TRUE, Append(items, csv[i].v), mappings)
                 ELSE IF ~ksv[2]
                 THEN BErr("BridgeError", <<"invalid property representation">>)
                 ELSE PropertiesLoop(csv, i + 1, FALSE, items, Put(mappings, ksv[1], ksv[3]))
         IN  KSV(partition(strip(csv[i].v), 61))

parse_properties(csv) == PropertiesLoop(csv, 1, TRUE, << >>, << >>)

build_library_info_from_property_dict(repr_) ==
    IF repr_.items = << >> THEN BErr("IndexError", << >>)
    ELSE IF KeyVersion \notin DOMAIN repr_.mappings THEN BErr("KeyError", <<KeyVersion>>)
    ELSE IF KeyCulture \notin DOMAIN repr_.mappings THEN BErr("KeyError", <<KeyCulture>>)
    ELSE BOk(LibraryInfo(repr_.items[Len(repr_.items)],
                         repr_.mappings[KeyVersion], repr_.mappings[KeyCulture],
                         IF KeyPublicKeyToken \in DOMAIN repr_.mappings
                         THEN <<repr_.mappings[KeyPublicKeyToken]>> ELSE << >>))

build_concrete_class_info_from_property_dict(repr_) ==
    LET WithLibrary(rl) ==
            IF ~rl.ok THEN rl ELSE BOk([name |-> repr_.items[1], library |-> <<rl.val>>])
    IN  IF Len(repr_.items) = 1
        THEN IF DOMAIN repr_.mappings # {}
             THEN BErr("BridgeError", <<"invalid property representation">>)
             ELSE BOk([name |-> repr_.items[1], library |-> << >>])
        ELSE IF Len(repr_.items) # 2
        THEN BErr("BridgeError", <<"invalid property representation">>)
        ELSE WithLibrary(build_library_info_from_property_dict(
                             PropertiesRepr(Tail(repr_.items), repr_.mappings)))

(* int(s) for a str of the characters above: an optional sign and digits *)
RECURSIVE DigitsValue(_)
DigitsValue(s) ==
    IF s = << >> THEN 0 ELSE 10 * DigitsValue(SubSeq(s, 1, Len(s) - 1)) + (s[Len(s)] - 48)
IntOfStr(s) ==
    LET digits == IF s # << >> /\ Head(s) \in {43, 45} THEN Tail(s) ELSE s
    IN  IF digits = << >> \/ \E i \in 1..Len(digits) : ~IsDigit(digits[i])
        THEN BErr("ValueError", << >>)
        ELSE BOk(IF Head(s) = 45 THEN 0 - DigitsValue(digits) ELSE DigitsValue(digits))

parse_class_name_with_arity(token) ==
    LET Arity(ra) ==
            IF ~ra.ok THEN BErr("BridgeError", <<"invalid arity">>)
            ELSE BOk([name |-> partition(token, 96)[1], arity |-> ra.val])
    IN  IF partition(token, 96)[2] THEN Arity(IntOfStr(partition(token, 96)[3]))
        ELSE BOk([name |-> token, arity |-> 0])

(* the elements of tokens: of a list its items, of a str its characters *)
Elements(tokens) ==
    IF tokens.t = "list" THEN tokens.v ELSE [k \in 1..Len(tokens.v) |-> StrTok(<<tokens.v[k]>>)]

(* _parse_class_name_inner(tokens, i): the pair (i, class info) *)
RECURSIVE parse_class_name_inner(_, _)

(* the while loop of _parse_class_name_inner over inner_tokens *)
RECURSIVE ParseParameters(_, _, _, _)
ParseParameters(inner_tokens, j, arity, parameters) ==
    LET Parsed(r) ==
            IF ~r.ok THEN r
            ELSE ParseParameters(inner_tokens, r.val.i, arity, Append(parameters, r.val.info))
    IN  IF Len(parameters) >= arity
        THEN IF j < Len(inner_tokens) THEN BErr("BridgeError", <<"redundant token">>)
             ELSE BOk(parameters)
        ELSE IF j >= Len(inner_tokens) THEN BErr("BridgeError", <<"unexpected end of tokens">>)
        ELSE Parsed(parse_class_name_inner(inner_tokens, j))

parse_class_name_inner(tokens, i) ==
    LET WithParameters(name, library, arity) ==
            LET Done(rp) ==
                    IF ~rp.ok THEN rp
                    ELSE BOk([i |-> i + 2, info |-> ParametrizedClassInfo(name, rp.val, library)])
            IN  IF arity <= 0
                THEN BOk([i |-> i + 1, info |-> ParametrizedClassInfo(name, << >>, library)])
                ELSE IF i + 1 >= Len(tokens)
                THEN BErr("BridgeError", <<"unexpected end of tokens">>)
                ELSE Done(ParseParameters(Elements(tokens[i + 2]), 0, arity, << >>))
        Named(ra, library) ==
            IF ~ra.ok THEN ra ELSE WithParameters(ra.val.name, library, ra.val.arity)
        Concrete(rc) ==
            IF ~rc.ok THEN rc
            ELSE Named(parse_class_name_with_arity(rc.val.name), rc.val.library)
        Properties(rp) ==
            IF ~rp.ok THEN rp
            ELSE Concrete(build_concrete_class_info_from_property_dict(rp.val))
    IN  IF i >= Len(tokens) THEN BErr("BridgeError", <<"unexpected end of tokens">>)
        ELSE IF tokens[i + 1].t = "str"
        THEN Named(parse_class_name_with_arity(tokens[i + 1].v), << >>)
        ELSE Properties(parse_properties(tokens[i + 1].v))

parse_class_name(value) ==
    LET Inner(r) == IF ~r.ok THEN r ELSE BOk(r.val.info)
        Form(rf) == IF ~rf.ok THEN rf ELSE Inner(parse_class_name_inner(rf.val, 0))
    IN  Form(parse_class_name_into_intermediate_form(value))

split_into_namespace_and_name(qualified_name) ==
    LET parts == rpartition(qualified_name, 46)
    IN  IF ~parts[2]
        THEN BErr("BridgeError", <<"invalid qualified type name">>)
        ELSE IF parts[3] = << >>
        THEN BErr("BridgeError", <<"invalid qualified type name">>)
        ELSE BOk(<<parts[1], parts[3]>>)

----------------------------------------------------------------------------
(* The CLI type model (cli/models.py, cli/builtins.py).  CLIType,           *)
(* CLITypeInstance and CLIValue objects live in heaps (th, ih, vh of the    *)
(* bridge state B); an object's identity is its index.  A CLINamespace is   *)
(* its qualified name, a CLITypeParam its name.                             *)

(* the namespaces "System", "System.Collections",                           *)
(* "System.Collections.Generic" and "__internal__"                          *)
NsSystem == <<83, 121, 115, 116, 101, 109>>
NsSystemCollections == NsSystem \o <<46>> \o <<67, 111, 108, 108, 101, 99, 116, 105, 111, 110, 115>>
NsSystemCollectionsGeneric == NsSystemCollections \o <<46>> \o <<71, 101, 110, 101, 114, 105, 99>>
NsInternal == <<95, 95, 105, 110, 116, 101, 114, 110, 97, 108, 95, 95>>

(* the type parameters "T", "TKey", "TValue" and the members "Key", "Value" *)
ParamT == <<84>>
ParamTKey == <<84, 75, 101, 121>>
ParamTValue == <<84, 86, 97, 108, 117, 101>>
MemberKey == <<75, 101, 121>>
MemberValue == <<86, 97, 108, 117, 101>>

(* what a member's type or a resolved parameter is: a CLITypeInstance or a  *)
(* CLITypeBinding                                                           *)
TIRef(id) == [k |-> "ti", id |-> id]
CLITypeBinding(ref) == [k |-> "binding", ref |-> ref]
CLITypeMember(name, type) == [name |-> name, type |-> type]

(* the attributes CLIType.__init__ sets; parameters are the params'         *)
(* CLITypeParam, members the members' CLITypeMember (ordinal = position,    *)
(* bound_to = the type itself)                                              *)
TypeObject(name, namespace, parameters, resolved_parameters, default_parameters, intrinsic, members, derived_from, member_handler) ==
    [name |-> name, namespace |-> namespace, parameters |-> parameters,
     resolved_parameters |-> resolved_parameters,
     default_parameters |-> default_parameters, intrinsic |-> intrinsic,
     members |-> members, derived_from |-> derived_from,
     member_handler |-> member_handler]

Nones(n) == [i \in 1..n |-> << >>]

(* CLIType(name, namespace, intrinsic=True, parameters=[...], members=...)  *)
(* as the module-level definitions call it                                  *)
IntrinsicType(name, namespace, parameters, members, member_handler) ==
    TypeObject(name, namespace, parameters, Nones(Len(parameters)),
               Nones(Len(parameters)), TRUE, members, << >>, member_handler)

(* the module-level CLITypes, by the name of the global bound to each *)
ModuleTypes == <<
    [global |-> "ARRAY_TYPE",
     type |-> IntrinsicType(<<65, 114, 114, 97, 121>>, NsInternal,
                            <<ParamT>>, << >>, FALSE)],
    [global |-> "SYSTEM_BOOLEAN",
     type |-> IntrinsicType(<<66, 111, 111, 108, 101, 97, 110>>, NsSystem,
                            << >>, << >>, FALSE)],
    [global |-> "SYSTEM_CHAR",
     type |-> IntrinsicType(<<67, 104, 97, 114>>, NsSystem,
                            << >>, << >>, FALSE)],
    [global |-> "SYSTEM_STRING",
     type |-> IntrinsicType(<<83, 116, 114, 105, 110, 103>>, NsSystem,
                            << >>, << >>, FALSE)],
    [global |-> "SYSTEM_SINGLE",
     type |-> IntrinsicType(<<83, 105, 110, 103, 108, 101>>, NsSystem,
                            << >>, << >>, FALSE)],
    [global |-> "SYSTEM_DOUBLE",
     type |-> IntrinsicType(<<68, 111, 117, 98, 108, 101>>, NsSystem,
                            << >>, << >>, FALSE)],
    [global |-> "SYSTEM_SBYTE",
     type |-> IntrinsicType(<<83, 66, 121, 116, 101>>, NsSystem,
                            << >>, << >>, FALSE)],
    [global |-> "SYSTEM_INT16",
     type |-> IntrinsicType(<<73, 110, 116, 49, 54>>, NsSystem,
                            << >>, << >>, FALSE)],
    [global |-> "SYSTEM_INT32",
     type |-> IntrinsicType(<<73, 110, 116, 51, 50>>, NsSystem,
                            << >>, << >>, FALSE)],
    [global |-> "SYSTEM_INT64",
     type |-> IntrinsicType(<<73, 110, 116, 54, 52>>, NsSystem,
                            << >>, << >>, FALSE)],
    [global |-> "SYSTEM_UINT64",
     type |-> IntrinsicType(<<85, 73, 110, 116, 54, 52>>, NsSystem,
                            << >>, << >>, FALSE)],
    [global |-> "SYSTEM_INTPTR",
     type |-> IntrinsicType(<<73, 110, 116, 80, 116, 114>>, NsSystem,
                            << >>, << >>, FALSE)],
    [global |-> "SYSTEM_UINTPTR",
     type |-> IntrinsicType(<<85, 73, 110, 116, 80, 116, 114>>, NsSystem,
                            << >>, << >>, FALSE)],
    [global |-> "SYSTEM_BYTE",
     type |-> IntrinsicType(<<66, 121, 116, 101>>, NsSystem,
                            << >>, << >>, FALSE)],
    [global |-> "SYSTEM_UINT16",
     type |-> IntrinsicType(<<85, 73, 110, 116, 49, 54>>, NsSystem,
                            << >>, << >>, FALSE)],
    [global |-> "SYSTEM_UINT32",
     type |-> IntrinsicType(<<85, 73, 110, 116, 51, 50>>, NsSystem,
                            << >>, << >>, FALSE)],
    [global |-> "SYSTEM_OBJECT",
     type |-> IntrinsicType(<<79, 98, 106, 101, 99, 116>>, NsSystem,
                            << >>, << >>, FALSE)],
    [global |-> "SYSTEM_COLLECTIONS_ARRAYLIST",
     type |-> IntrinsicType(<<65, 114, 114, 97, 121, 76, 105, 115, 116>>, NsSystemCollections,
                            << >>, << >>, FALSE)],
    [global |-> "SYSTEM_COLLECTIONS_DICTIONARY",
     type |-> IntrinsicType(<<68, 105, 99, 116, 105, 111, 110, 97, 114, 121>>, NsSystemCollections,
                            << >>, << >>, FALSE)],
    [global |-> "SYSTEM_COLLECTIONS_GENERIC_LIST",
     type |-> IntrinsicType(<<76, 105, 115, 116>>, NsSystemCollectionsGeneric,
                            <<ParamT>>, << >>, FALSE)],
    [global |-> "SYSTEM_COLLECTIONS_GENERIC_DICTIONARY",
     type |-> IntrinsicType(<<68, 105, 99, 116, 105, 111, 110, 97, 114, 121>>, NsSystemCollectionsGeneric,
                            <<ParamTKey, ParamTValue>>, << >>, FALSE)],
    [global |-> "SYSTEM_COLLECTIONS_GENERIC_KEYVALUEPAIR",
     type |-> IntrinsicType(<<75, 101, 121, 86, 97, 108, 117, 101, 80, 97, 105, 114>>, NsSystemCollectionsGeneric,
                            <<ParamTKey, ParamTValue>>, <<CLITypeMember(MemberKey, CLITypeBinding(ParamTKey)),
                               CLITypeMember(MemberValue, CLITypeBinding(ParamTValue))>>, TRUE)],
    [global |-> "SYSTEM_DATETIME",
     type |-> IntrinsicType(<<68, 97, 116, 101, 84, 105, 109, 101>>, NsSystem,
                            << >>, << >>, FALSE)],
    [global |-> "SYSTEM_TIMESPAN",
     type |-> IntrinsicType(<<84, 105, 109, 101, 83, 112, 97, 110>>, NsSystem,
                            << >>, << >>, FALSE)],
    [global |-> "SYSTEM_DECIMAL",
     type |-> IntrinsicType(<<68, 101, 99, 105, 109, 97, 108>>, NsSystem,
                            << >>, << >>, FALSE)] >>

Global(g) == CHOOSE i \in 1..Len(ModuleTypes) : ModuleTypes[i].global = g

(* the attributes of Builtins in the order Builtins.__init__ sets them; all *)
(* but the last are CLITypeInstance(ctx, <the global of the same name>)     *)
BuiltinsAttributes == <<
    "SYSTEM_BOOLEAN", "SYSTEM_CHAR", "SYSTEM_STRING", "SYSTEM_SINGLE", "SYSTEM_DOUBLE",
    "SYSTEM_SBYTE", "SYSTEM_INT16", "SYSTEM_INT32", "SYSTEM_INT64", "SYSTEM_INTPTR",
    "SYSTEM_UINTPTR", "SYSTEM_BYTE", "SYSTEM_UINT16", "SYSTEM_UINT32", "SYSTEM_UINT64",
    "SYSTEM_OBJECT", "SYSTEM_COLLECTIONS_ARRAYLIST", "SYSTEM_COLLECTIONS_DICTIONARY",
    "SYSTEM_DATETIME", "SYSTEM_DECIMAL", "SYSTEM_TIMESPAN", "SYSTEM_BYTE_ARRAY" >>
Builtin(a) == CHOOSE i \in 1..Len(BuiltinsAttributes) : BuiltinsAttributes[i] = a

(* what an operation on the bridge state B gives: the state after it and    *)
(* the value it returned, or the exception it raised                        *)
BRes(B, v) == [ok |-> TRUE, err |-> NoErr, B |-> B, val |-> v]
BFail(B, kind, args) == [ok |-> FALSE, err |-> Raise(kind, args), B |-> B, val |-> NoVal]

(* CLIType.__init__ for parameters and default_parameters given as          *)
(* sequences (a mapping of each parameter to None is the sequence of its    *)
(* keys); resolved_parameters is << >> for None; the new type's index       *)
CLIType(B, name, namespace, parameters, default_parameters, resolved_parameters, intrinsic, members, derived_from, member_handler) ==
    LET n == Len(parameters)
        resolved == IF resolved_parameters = << >> THEN Nones(n)
                    ELSE resolved_parameters[1]
        defaults == [i \in 1..n |-> IF i <= Len(default_parameters)
                                    THEN default_parameters[i] ELSE << >>]
    IN  IF resolved_parameters # << >> /\ n # Len(resolved_parameters[1])
        THEN BFail(B, "ValueError", <<"element counts">>)
        ELSE IF Len(default_parameters) > n
        THEN BFail(B, "ValueError", <<"default_parameters">>)
        ELSE IF \E i \in 1..n : resolved[i] # << >> /\ defaults[i] # << >>
        THEN BFail(B, "ValueError", <<"default parameter shadows">>)
        ELSE BRes([B EXCEPT !.th = Append(@, TypeObject(name, namespace, parameters,
                                                       resolved, defaults, intrinsic,
                                                       members, derived_from,
                                                       member_handler))],
                  Len(B.th) + 1)

(* an argument left at its default NOTHING is << >>, a given one <<value>> *)
NOTHING == << >>

(* CLIType.replace(resolved_parameters=, members=, derived_from=) *)
replace(B, self, resolved_parameters, members, derived_from) ==
    CLIType(B, B.th[self].name, B.th[self].namespace, B.th[self].parameters,
            B.th[self].default_parameters,
            IF resolved_parameters = NOTHING THEN <<B.th[self].resolved_parameters>>
            ELSE resolved_parameters[1],
            B.th[self].intrinsic,
            IF members = NOTHING THEN B.th[self].members ELSE members[1],
            IF derived_from = NOTHING THEN B.th[self].derived_from ELSE derived_from[1],
            B.th[self].member_handler)

(* the parameters argument of partial and instantiate: a Mapping from       *)
(* CLITypeParam or a Collection whose items may be None                     *)
Mapping(d) == [mapping |-> TRUE, d |-> d, items |-> << >>]
Collection(items) == [mapping |-> FALSE, d |-> << >>, items |-> items]

(* dict(zip(keys, values)) *)
RECURSIVE DictZip(_, _)
DictZip(keys, values) ==
    LET n == Min(Len(keys), Len(values))
    IN  IF n = 0 THEN << >>
        ELSE Put(DictZip(SubSeq(keys, 1, n - 1), SubSeq(values, 1, n - 1)), keys[n], values[n])

(* partial with a supplied value taking the place of a resolved one *)
partial_Overwrite(B, self, parameters) ==
    LET t == B.th[self]
        n == Len(t.parameters)
        p(i) == IF parameters.mapping
                THEN IF t.parameters[i] \in DOMAIN parameters.d
                     THEN <<parameters.d[t.parameters[i]]>> ELSE << >>
                ELSE IF i <= Len(parameters.items) THEN parameters.items[i] ELSE << >>
    IN  IF ~parameters.mapping /\ Len(parameters.items) > n
        THEN BFail(B, "ValueError", <<"expected at most", n>>)
        ELSE replace(B, self,
                     <<<<[i \in 1..n |-> IF p(i) # << >> THEN p(i)
                                         ELSE t.resolved_parameters[i]]>>>>,
                     <<t.members>>, <<<<self>>>>)

(* CLIType.partial *)
partial(B, self, parameters) ==
    LET t == B.th[self]
        n == Len(t.parameters)
        p(i) == IF parameters.mapping
                THEN IF t.parameters[i] \in DOMAIN parameters.d
                     THEN <<parameters.d[t.parameters[i]]>> ELSE << >>
                ELSE IF i <= Len(parameters.items) THEN parameters.items[i] ELSE << >>
    IN  IF ~parameters.mapping /\ Len(parameters.items) > n
        THEN BFail(B, "ValueError", <<"expected at most", n>>)
        ELSE IF \E i \in 1..n : t.resolved_parameters[i] # << >> /\ p(i) # << >>
        THEN BFail(B, "ValueError", <<"already has a value">>)
        ELSE replace(B, self,
                     <<<<[i \in 1..n |-> IF t.resolved_parameters[i] = << >> THEN p(i)
                                         ELSE t.resolved_parameters[i]]>>>>,
                     <<t.members>>, <<<<self>>>>)

(* a dict in the order of its keys: the pairs of a key and its value *)
OrderedMapping(pairs) == [mapping |-> TRUE, d |-> << >>, items |-> pairs]

(* a constructor that takes resolved_parameters of any length *)
CLIType_init_Unchecked(B, name, namespace, parameters, default_parameters, resolved_parameters, intrinsic, members, derived_from, member_handler) ==
    LET bound == IF parameters.mapping
                 THEN [i \in DOMAIN parameters.items |-> parameters.items[i][1]]
                 ELSE parameters.items
        resolved == IF parameters.mapping
                    THEN [i \in DOMAIN parameters.items |-> parameters.items[i][2]]
                    ELSE IF resolved_parameters # << >> THEN resolved_parameters[1]
                    ELSE Nones(Len(parameters.items))
        longest == IF Len(bound) > Len(default_parameters.items) THEN Len(bound)
                   ELSE Len(default_parameters.items)
        defaults == IF default_parameters.mapping
                    THEN [i \in DOMAIN bound |->
                             IF bound[i] \in DOMAIN default_parameters.d
                             THEN <<default_parameters.d[bound[i]]>> ELSE << >>]
                    ELSE [i \in 1..longest |->
                             IF i <= Len(default_parameters.items)
                             THEN default_parameters.items[i] ELSE << >>]
        zipped == Min(Min(Len(resolved), Len(defaults)), Len(bound))
    IN  IF parameters.mapping /\ resolved_parameters # << >> /\ resolved_parameters[1] # << >>
        THEN BFail(B, "ValueError", <<"cannot specify both">>)
        ELSE IF ~default_parameters.mapping /\ Len(default_parameters.items) > Len(bound)
        THEN BFail(B, "ValueError", <<"default_parameters">>)
        ELSE IF \E i \in 1..zipped : resolved[i] # << >> /\ defaults[i] # << >>
        THEN BFail(B, "ValueError", <<"default parameter shadows">>)
        ELSE BRes([B EXCEPT !.th = Append(@, TypeObject(name, namespace, bound,
                                                       resolved, defaults, intrinsic,
                                                       members, derived_from,
                                                       member_handler))],
                  Len(B.th) + 1)

(* CLIType.__init__ for parameters a Collection of CLITypeParam or an       *)
(* OrderedMapping of them to a resolvable or None, default_parameters a     *)
(* Collection or a Mapping and resolved_parameters a sequence, or << >> for *)
(* None: each of the three vectors as its own branch of the code makes it;  *)
(* the new type's index                                                     *)
CLIType_init(B, name, namespace, parameters, default_parameters, resolved_parameters, intrinsic, members, derived_from, member_handler) ==
    LET bound == IF parameters.mapping
                 THEN [i \in DOMAIN parameters.items |-> parameters.items[i][1]]
                 ELSE parameters.items
        resolved == IF parameters.mapping
                    THEN [i \in DOMAIN parameters.items |-> parameters.items[i][2]]
                    ELSE IF resolved_parameters # << >> THEN resolved_parameters[1]
                    ELSE Nones(Len(parameters.items))
        longest == IF Len(bound) > Len(default_parameters.items) THEN Len(bound)
                   ELSE Len(default_parameters.items)
        defaults == IF default_parameters.mapping
                    THEN [i \in DOMAIN bound |->
                             IF bound[i] \in DOMAIN default_parameters.d
                             THEN <<default_parameters.d[bound[i]]>> ELSE << >>]
                    ELSE [i \in 1..longest |->
                             IF i <= Len(default_parameters.items)
                             THEN default_parameters.items[i] ELSE << >>]
        zipped == Min(Min(Len(resolved), Len(defaults)), Len(bound))
    IN  IF parameters.mapping /\ resolved_parameters # << >> /\ resolved_parameters[1] # << >>
        THEN BFail(B, "ValueError", <<"cannot specify both">>)
        ELSE IF /\ ~parameters.mapping
                /\ resolved_parameters # << >>
                /\ Len(parameters.items) # Len(resolved_parameters[1])
        THEN BFail(B, "ValueError", <<"element counts">>)
        ELSE IF ~default_parameters.mapping /\ Len(default_parameters.items) > Len(bound)
        THEN BFail(B, "ValueError", <<"default_parameters">>)
        ELSE IF \E i \in 1..zipped : resolved[i] # << >> /\ defaults[i] # << >>
        THEN BFail(B, "ValueError", <<"default parameter shadows">>)
        ELSE BRes([B EXCEPT !.th = Append(@, TypeObject(name, namespace, bound,
                                                       resolved, defaults, intrinsic,
                                                       members, derived_from,
                                                       member_handler))],
                  Len(B.th) + 1)

(* CLIType.replace(parameters=, resolved_parameters=): default_parameters   *)
(* are always those of self                                                 *)
type_replace(B, self, parameters, resolved_parameters) ==
    CLIType_init(B, B.th[self].name, B.th[self].namespace,
                 IF parameters = NOTHING THEN Collection(B.th[self].parameters)
                 ELSE parameters[1],
                 Collection(B.th[self].default_parameters),
                 IF resolved_parameters = NOTHING THEN <<B.th[self].resolved_parameters>>
                 ELSE resolved_parameters[1],
                 B.th[self].intrinsic, B.th[self].members, B.th[self].derived_from,
                 B.th[self].member_handler)

(* CLITypeInstance.__init__ *)
CLITypeInstance(refs, derived_from, member_handler) ==
    [ctx |-> [refs |-> refs], derived_from |-> derived_from,
     member_handler |-> member_handler]

(* resolvable.resolve(ctx) for a CLITypeInstance (itself) or a              *)
(* CLITypeBinding (what ctx.refs binds its parameter to); << >> if unbound  *)
ResolveIn(refs, resolvable) ==
    IF resolvable.k = "ti" THEN <<resolvable.id>>
    ELSE IF resolvable.ref \in DOMAIN refs THEN <<refs[resolvable.ref]>>
    ELSE << >>

(* the loop of CLIType.resolve over the parameters from i on: ctx.refs *)
RECURSIVE ResolveParameters(_, _, _)
ResolveParameters(t, i, refs) ==
    IF i > Len(t.parameters) THEN BOk(refs)
    ELSE IF t.resolved_parameters[i] = << >>
    THEN BErr("ValueError", <<"has unresolved parameters">>)
    ELSE IF ResolveIn(refs, t.resolved_parameters[i][1]) = << >>
    THEN BErr("ValueError", <<"type parameter is unbound">>)
    ELSE ResolveParameters(t, i + 1,
                           Put(refs, t.parameters[i],
                               ResolveIn(refs, t.resolved_parameters[i][1])[1]))

(* CLIType.resolve(ctx) with ctx a new CLITypeResolutionContext: the new    *)
(* instance's index                                                        *)
resolve(B, self) ==
    LET Resolved(r) ==
            IF ~r.ok THEN BFail(B, r.err.kind, r.err.args)
            ELSE BRes([B EXCEPT !.ih = Append(@, CLITypeInstance(r.val, self,
                                                   B.th[self].member_handler))],
                      Len(B.ih) + 1)
    IN  Resolved(ResolveParameters(B.th[self], 1, << >>))

(* Type resolution contexts shared between calls.  The contexts live in a   *)
(* heap ch next to th, ih and vh; a CLITypeResolutionContext is its three   *)
(* dicts, resolved and reprs keyed by the identity of a CLIType, refs by a  *)
(* CLITypeParam; a type instance made here holds the index of its context.  *)

CLITypeResolutionContext == [resolved |-> << >>, refs |-> << >>, reprs |-> << >>]
TypeRef(id) == [k |-> "type", id |-> id]

(* CLITypeInstance(ctx, derived_from) *)
NewInstance(K, c, derived_from) ==
    BRes([K EXCEPT !.ih = Append(@, [ctx |-> c, derived_from |-> derived_from,
                                     member_handler |-> K.th[derived_from].member_handler])],
         Len(K.ih) + 1)

(* CLIType.stringify(ctx), CLITypeInstance.stringify and                    *)
(* CLITypeBinding.stringify, by the kind of the resolvable                  *)
RECURSIVE type_stringify(_, _, _)
resolvable_stringify(K, c, resolvable) ==
    CASE resolvable.k = "type" -> type_stringify(K, c, resolvable.id)
      [] resolvable.k = "ti" ->
            type_stringify(K, K.ih[resolvable.id].ctx, K.ih[resolvable.id].derived_from)
      [] OTHER ->
            IF resolvable.ref \notin DOMAIN K.ch[c].refs
            THEN BFail(K, "ValueError", <<"type parameter is unbound">>)
            ELSE type_stringify(K, K.ih[K.ch[c].refs[resolvable.ref]].ctx,
                                K.ih[K.ch[c].refs[resolvable.ref]].derived_from)

(* ", ".join(p.stringify(ctx) if p is not None else "?" for p in            *)
(* resolved_parameters), from slot i on                                     *)
RECURSIVE StringifyParameters(_, _, _, _)
StringifyParameters(K, c, resolved_parameters, i) ==
    LET sep == IF i < Len(resolved_parameters) THEN <<44, 32>> ELSE << >>
        Both(s, rest) == IF ~rest.ok THEN rest ELSE BRes(rest.B, s \o sep \o rest.val)
        First(r) ==
            IF ~r.ok THEN r
            ELSE Both(r.val, StringifyParameters(r.B, c, resolved_parameters, i + 1))
    IN  IF i > Len(resolved_parameters) THEN BRes(K, << >>)
        ELSE IF resolved_parameters[i] = << >>
        THEN Both(<<63>>, StringifyParameters(K, c, resolved_parameters, i + 1))
        ELSE First(resolvable_stringify(K, c, resolved_parameters[i][1]))

type_stringify(K, c, self) ==
    LET t == K.th[self]
        namespace == IF t.namespace = << >> THEN << >> ELSE t.namespace \o <<46>>
        Named(r) ==
            IF ~r.ok THEN r
            ELSE BRes([r.B EXCEPT !.ch[c].reprs =
                           Put(@, self, namespace \o t.name
                                        \o (IF t.parameters = << >> THEN << >>
                                            ELSE <<60>> \o r.val \o <<62>>))],
                      namespace \o t.name
                      \o (IF t.parameters = << >> THEN << >> ELSE <<60>> \o r.val \o <<62>>))
    IN  IF self \in DOMAIN K.ch[c].reprs THEN BRes(K, K.ch[c].reprs[self])
        ELSE IF t.parameters = << >>
        THEN Named(BRes([K EXCEPT !.ch[c].reprs = Put(@, self, <<46, 46, 46>>)], << >>))
        ELSE Named(StringifyParameters([K EXCEPT !.ch[c].reprs = Put(@, self, <<46, 46, 46>>)],
                                       c, t.resolved_parameters, 1))

(* str(self) of a CLIType: stringify in a new context, which is dropped *)
type_str(K, self) ==
    LET Dropped(r) == [r EXCEPT !.B.ch = SubSeq(@, 1, Len(K.ch))]
    IN  Dropped(type_stringify([K EXCEPT !.ch = Append(@, CLITypeResolutionContext)],
                               Len(K.ch) + 1, self))

(* str(self) of a CLITypeInstance *)
ti_str(K, self) == type_stringify(K, K.ih[self].ctx, K.ih[self].derived_from)

(* CLIType.resolve(ctx), CLITypeInstance.resolve and CLITypeBinding.resolve *)
RECURSIVE type_resolve(_, _, _)
resolvable_resolve(K, c, resolvable) ==
    CASE resolvable.k = "type" -> type_resolve(K, c, resolvable.id)
      [] resolvable.k = "ti" -> BRes(K, resolvable.id)
      [] OTHER ->
            IF resolvable.ref \notin DOMAIN K.ch[c].refs
            THEN BFail(K, "ValueError", <<"type parameter is unbound">>)
            ELSE BRes(K, K.ch[c].refs[resolvable.ref])

(* the loop of CLIType.resolve over the parameters from i on; the message   *)
(* of its ValueError is made with str(self)                                 *)
RECURSIVE ResolveLoop(_, _, _, _)
ResolveLoop(K, c, self, i) ==
    LET t == K.th[self]
        Raised(r) == IF ~r.ok THEN r ELSE BFail(r.B, "ValueError", <<"has unresolved parameters">>)
        Bound(r) ==
            IF ~r.ok THEN r
            ELSE ResolveLoop([r.B EXCEPT !.ch[c].refs = Put(@, t.parameters[i], r.val)],
                             c, self, i + 1)
    IN  IF i > Len(t.parameters) THEN BRes(K, NoVal)
        ELSE IF t.resolved_parameters[i] = << >> THEN Raised(type_str(K, self))
        ELSE Bound(resolvable_resolve(K, c, t.resolved_parameters[i][1]))

type_resolve(K, c, self) ==
    LET Made(r) == BRes([r.B EXCEPT !.ch[c].resolved = Put(@, self, r.val)], r.val)
        Looped(r) == IF ~r.ok THEN r ELSE Made(NewInstance(r.B, c, self))
    IN  IF self \in DOMAIN K.ch[c].resolved THEN BRes(K, K.ch[c].resolved[self])
        ELSE Looped(ResolveLoop(K, c, self, 1))

(* self.members[index].type of a CLITypeInstance:                           *)
(* CLITypeInstanceMemberCollectionView.__getitem__ on a new view, which     *)
(* resolves the declared type of the member in the instance's context       *)
member_type(K, self, index) ==
    LET members == K.th[K.ih[self].derived_from].members
    IN  IF index >= Len(members) THEN BFail(K, "IndexError", << >>)
        ELSE resolvable_resolve(K, K.ih[self].ctx, members[index + 1].type)

(* whether the state keeps the contexts in the heap ch, where the instances *)
(* that share a context hold its index; without ch every instance holds a   *)
(* context of its own                                                       *)
SharedContexts(B) == "ch" \in DOMAIN B

(* type_instance.ctx.refs *)
RefsOf(B, ti) == IF SharedContexts(B) THEN B.ch[B.ih[ti].ctx].refs ELSE B.ih[ti].ctx.refs

(* resolvable.resolve(type_instance.ctx) *)
ResolveInContextOf(B, ti, resolvable) ==
    IF SharedContexts(B) THEN resolvable_resolve(B, B.ih[ti].ctx, resolvable)
    ELSE IF ResolveIn(B.ih[ti].ctx.refs, resolvable) = << >>
    THEN BFail(B, "ValueError", <<"type parameter is unbound">>)
    ELSE BRes(B, ResolveIn(B.ih[ti].ctx.refs, resolvable)[1])

(* CLIType.instantiate: self.partial(parameters).resolve(                   *)
(* CLITypeResolutionContext())                                              *)
instantiate(B, self, parameters) ==
    LET Partial(r) ==
            IF ~r.ok THEN r
            ELSE IF SharedContexts(B)
            THEN type_resolve([r.B EXCEPT !.ch = Append(@, CLITypeResolutionContext)],
                              Len(r.B.ch) + 1, r.val)
            ELSE resolve(r.B, r.val)
    IN  Partial(partial(B, self, parameters))

(* CLIType.origin *)
origin(B, self) == IF B.th[self].derived_from # << >> THEN B.th[self].derived_from[1] ELSE self

(* CLIBasicValue, CLICompositeObject; a tuple or a list as a Python value *)
CLIBasicValue(type_instance, value) ==
    [t |-> "CLIBasicValue", type_instance |-> type_instance, value |-> value,
     members |-> << >>]
CLICompositeObject(type_instance, members) ==
    [t |-> "CLICompositeObject", type_instance |-> type_instance, value |-> NoneV,
     members |-> members]
TupleV(items) == [t |-> "tuple", items |-> items]
ListV(items) == [t |-> "list", items |-> items]

(* a new CLIValue object: its address *)
NewValue(B, v) == BRes([B EXCEPT !.vh = Append(@, v)], Len(B.vh) + 1)

(* type_instance[name]: CLITypeInstanceMemberCollectionView.__getitem__     *)
(* looks the name up in the type and resolves the member's type in the      *)
(* instance's context; the member's ordinal and type                        *)
InstanceMember(B, ti, name) ==
    LET members == B.th[B.ih[ti].derived_from].members
        found == {i \in 1..Len(members) : members[i].name = name}
        first == CHOOSE i \in found : \A j \in found : i <= j
        Resolved(r) == IF ~r.ok THEN r ELSE BRes(r.B, [ordinal |-> first - 1, type |-> r.val])
    IN  IF found = {} THEN BFail(B, "KeyError", <<name>>)
        ELSE Resolved(ResolveInContextOf(B, ti, members[first].type))

(* type_instance[name].ordinal *)
MemberOrdinal(B, ti, name) ==
    LET Ordinal(r) == IF ~r.ok THEN r ELSE BRes(r.B, r.val.ordinal)
    IN  Ordinal(InstanceMember(B, ti, name))

(* a str-keyed dict keeps its keys in insertion order: d[k] = v *)
DictSet(d, k, v) ==
    IF \E i \in 1..Len(d) : d[i][1] = k
    THEN [i \in 1..Len(d) |-> IF d[i][1] = k THEN <<k, v>> ELSE d[i]]
    ELSE Append(d, <<k, v>>)

(* sorted(member_dict.items(), key=lambda pair: self[pair[0]].ordinal): the *)
(* keys of the items from i on, then the values in the (stable) order       *)
RECURSIVE MemberOrdinals(_, _, _, _)
MemberOrdinals(B, ti, items, i) ==
    LET Both(r, rest) == IF ~rest.ok THEN rest ELSE BRes(rest.B, <<r.val>> \o rest.val)
        First(r) == IF ~r.ok THEN r ELSE Both(r, MemberOrdinals(r.B, ti, items, i + 1))
    IN  IF i > Len(items) THEN BRes(B, << >>)
        ELSE First(MemberOrdinal(B, ti, items[i][1]))
(* the values in the order of the items, whatever the keys *)
SortedValues_Unsorted(items, keys) == [k \in 1..Len(items) |-> items[k][2]]

SortedValues(items, keys) ==
    LET n == Len(items)
        rank(i) == Cardinality({j \in 1..n : keys[j] < keys[i] \/ (keys[j] = keys[i] /\ j < i)})
    IN  [k \in 1..n |-> items[CHOOSE i \in 1..n : rank(i) = k - 1][2]]

(* CLITypeInstance.instantiate(value, member_values, member_dict);          *)
(* member_values and member_dict are << >> for None                         *)
ti_instantiate(B, self, value, member_values, member_dict) ==
    LET t == B.th[B.ih[self].derived_from]
        Made(B1, values) ==
            IF t.intrinsic
            THEN IF values # << >> /\ values[1] # << >>
                 THEN IF ~B.ih[self].member_handler
                      THEN BFail(B1, "ValueError", <<"no member_handler is provided">>)
                      ELSE NewValue(B1, CLIBasicValue(self, TupleV(values[1])))
                 ELSE NewValue(B1, CLIBasicValue(self, value))
            ELSE IF values = << >> /\ t.members # << >>
            THEN BFail(B1, "ValueError", <<"either member_values or member_dict">>)
            ELSE IF (IF values = << >> THEN 0 ELSE Len(values[1])) # Len(t.members)
            THEN BFail(B1, "ValueError", <<"member count">>)
            ELSE NewValue(B1, CLICompositeObject(self, IF values = << >> THEN << >>
                                                       ELSE values[1]))
        Sorted(r) ==
            IF ~r.ok THEN r
            ELSE Made(r.B, <<SortedValues(member_dict[1], r.val)>>)
    IN  IF member_values = << >>
        THEN IF t.members # << >> /\ member_dict # << >>
             THEN Sorted(MemberOrdinals(B, self, member_dict[1], 1))
             ELSE Made(B, << >>)
        ELSE IF member_dict # << >>
        THEN BFail(B, "ValueError", <<"member_values and member_dict">>)
        ELSE Made(B, member_values)

(* array_of and Bridge._get_array_type's ARRAY_TYPE.instantiate([t]) *)
array_of(B, type_instance) ==
    instantiate(B, Global("ARRAY_TYPE"), Collection(<<<<TIRef(type_instance)>>>>))

(* Builtins(ctx) with ctx a new CLITypeResolutionContext: the instances of  *)
(* the module-level types, all in ctx, then SYSTEM_BYTE_ARRAY               *)
BuiltinInstances(B, context) ==
    [i \in 1..(Len(BuiltinsAttributes) - 1) |->
        [ctx |-> context, derived_from |-> Global(BuiltinsAttributes[i]),
         member_handler |-> B.th[Global(BuiltinsAttributes[i])].member_handler]]
NewBuiltins(B) ==
    array_of(IF SharedContexts(B)
             THEN [B EXCEPT !.ch = Append(@, CLITypeResolutionContext),
                            !.ih = @ \o BuiltinInstances(B, Len(B.ch) + 1)]
             ELSE [B EXCEPT !.ih = @ \o BuiltinInstances(B, [refs |-> << >>])],
             Len(B.ih) + Builtin("SYSTEM_BYTE"))

(* Builtins.from_python_value for the values the decoder produces: None,    *)
(* bool and int, str, and the 8-byte values kept as bytes (a timedelta for  *)
(* TimeSpan, a datetime for DateTime, an int otherwise)                     *)
from_python_value(B, v) ==
    CASE v.t = "None" -> ti_instantiate(B, Builtin("SYSTEM_OBJECT"), v, << >>, << >>)
      [] v.t \in {"int", "bool"} -> ti_instantiate(B, Builtin("SYSTEM_INT32"), v, << >>, << >>)
      [] v.t = "str" -> ti_instantiate(B, Builtin("SYSTEM_STRING"), v, << >>, << >>)
      [] v.t = "raw" /\ v.prim = 12 ->
            ti_instantiate(B, Builtin("SYSTEM_TIMESPAN"), v, << >>, << >>)
      [] v.t = "raw" /\ v.prim = 13 ->
            ti_instantiate(B, Builtin("SYSTEM_DATETIME"), v, << >>, << >>)
      [] v.t = "raw" -> ti_instantiate(B, Builtin("SYSTEM_INT32"), v, << >>, << >>)
      [] OTHER -> BFail(B, "TypeError", <<"is not a supported type">>)

----------------------------------------------------------------------------
(* The bridge (bridge.py).  The bridge state B holds the heaps and the      *)
(* attributes of Bridge: result, types (_p_class_to_cli_type_mappings),     *)
(* instances (_p_class_to_cli_type_instance_mappings), array_types,         *)
(* namespaces (the keys of _namespaces) and objects (_objects).             *)

(* Bridge._lookup_namespace *)
RECURSIVE lookup_namespace(_, _)
lookup_namespace(B, namespace) ==
    IF namespace \in B.namespaces THEN B
    ELSE [lookup_namespace(B, rpartition(namespace, 46)[1])
             EXCEPT !.namespaces = @ \cup {namespace}]

(* str(n) for n >= 0 *)
RECURSIVE DecimalStr(_)
DecimalStr(n) == IF n < 10 THEN <<48 + n>> ELSE DecimalStr(n \div 10) \o <<48 + (n % 10)>>

(* _primitive_type_to_cli_type_instance_builtin_mappings *)
PrimitiveBuiltin(prim_type) ==
    CASE prim_type = 1 -> "SYSTEM_BOOLEAN" [] prim_type = 2 -> "SYSTEM_BYTE"
      [] prim_type = 3 -> "SYSTEM_CHAR" [] prim_type = 5 -> "SYSTEM_DECIMAL"
      [] prim_type = 6 -> "SYSTEM_DOUBLE" [] prim_type = 7 -> "SYSTEM_INT16"
      [] prim_type = 8 -> "SYSTEM_INT32" [] prim_type = 9 -> "SYSTEM_INT64"
      [] prim_type = 10 -> "SYSTEM_SBYTE" [] prim_type = 11 -> "SYSTEM_SINGLE"
      [] prim_type = 12 -> "SYSTEM_TIMESPAN" [] prim_type = 13 -> "SYSTEM_DATETIME"
      [] prim_type = 14 -> "SYSTEM_UINT16" [] prim_type = 15 -> "SYSTEM_UINT32"
      [] prim_type = 16 -> "SYSTEM_UINT64" [] prim_type = 17 -> "SYSTEM_OBJECT"
      [] prim_type = 18 -> "SYSTEM_STRING"

RECURSIVE get_cli_type_instance_for_parametrized_class_info(_, _, _)
RECURSIVE get_cli_type_instance_for_type_info(_, _)

(* Bridge._build_cli_type_members: the members from i on *)
RECURSIVE build_cli_type_members(_, _, _)
build_cli_type_members(B, members, i) ==
    LET Both(r, rest) ==
            IF ~rest.ok THEN rest
            ELSE BRes(rest.B, <<CLITypeMember(members[i].name, TIRef(r.val))>> \o rest.val)
        First(r) == IF ~r.ok THEN r ELSE Both(r, build_cli_type_members(r.B, members, i + 1))
    IN  IF i > Len(members) THEN BRes(B, << >>)
        ELSE First(get_cli_type_instance_for_type_info(B, members[i].type_info))

(* the generator of the instances of p_class_info.parameters, from i on *)
RECURSIVE ParameterInstances(_, _, _)
ParameterInstances(B, parameters, i) ==
    LET Both(r, rest) == IF ~rest.ok THEN rest ELSE BRes(rest.B, <<TIRef(r.val)>> \o rest.val)
        First(r) == IF ~r.ok THEN r ELSE Both(r, ParameterInstances(r.B, parameters, i + 1))
    IN  IF i > Len(parameters) THEN BRes(B, << >>)
        ELSE First(get_cli_type_instance_for_parametrized_class_info(B, parameters[i], << >>))

(* the first half of _get_cli_type_instance_for_parametrized_class_info:    *)
(* the CLIType t looked up in, created for or upgraded in the type cache    *)
GetOrCreateType(B, p_class_info, members) ==
    LET t_key == <<p_class_info.name, p_class_info.library, Len(p_class_info.parameters)>>
        Cached(r) == IF ~r.ok THEN r ELSE BRes([r.B EXCEPT !.types = Put(@, t_key, r.val)], r.val)
        Create(rs, rm) ==
            IF ~rm.ok THEN rm
            ELSE Cached(CLIType(rm.B, rs.val[2], rs.val[1],
                                [n \in 1..Len(p_class_info.parameters) |-> <<84>> \o DecimalStr(n)],
                                << >>, << >>, FALSE, rm.val, << >>, FALSE))
        Split(rs) ==
            IF ~rs.ok THEN BFail(B, rs.err.kind, rs.err.args)
            ELSE Create(rs, build_cli_type_members(lookup_namespace(B, rs.val[1]), members, 1))
        Upgrade(t, rm) ==
            IF ~rm.ok THEN rm ELSE Cached(replace(rm.B, t, NOTHING, <<rm.val>>, NOTHING))
    IN  IF t_key \notin DOMAIN B.types
        THEN Split(split_into_namespace_and_name(p_class_info.name))
        ELSE IF ~B.th[B.types[t_key]].intrinsic /\ B.th[B.types[t_key]].members = << >>
                /\ members # << >>
        THEN Upgrade(B.types[t_key], build_cli_type_members(B, members, 1))
        ELSE BRes(B, B.types[t_key])

(* Bridge._get_cli_type_instance_for_parametrized_class_info *)
get_cli_type_instance_for_parametrized_class_info(B, p_class_info, members) ==
    LET Cached(r) ==
            IF ~r.ok THEN r
            ELSE BRes([r.B EXCEPT !.instances = Put(@, p_class_info, r.val)], r.val)
        Instantiate(t, unknown_parameters, rp) ==
            IF ~rp.ok THEN rp
            ELSE Cached(instantiate(rp.B, t, Mapping(DictZip(unknown_parameters, rp.val))))
        unknown(B1, t) ==
            SelectSeq([i \in 1..Len(B1.th[t].parameters) |->
                          IF B1.th[t].resolved_parameters[i] = << >>
                          THEN <<B1.th[t].parameters[i]>> ELSE << >>],
                      LAMBDA x : x # << >>)
        Typed(rt) ==
            IF ~rt.ok THEN rt
            ELSE IF Len(unknown(rt.B, rt.val)) # Len(p_class_info.parameters)
            THEN BFail(rt.B, "BridgeError", <<"invalid number of type parameters">>)
            ELSE Instantiate(rt.val,
                             [i \in 1..Len(unknown(rt.B, rt.val)) |-> unknown(rt.B, rt.val)[i][1]],
                             ParameterInstances(rt.B, p_class_info.parameters, 1))
    IN  IF p_class_info \in DOMAIN B.instances THEN BRes(B, B.instances[p_class_info])
        ELSE Typed(GetOrCreateType(B, p_class_info, members))

(* the body _get_cli_type_instance_for_class_info and                       *)
(* _get_cli_type_instance_for_class_type_info share                         *)
InstanceForName(B, name, library_id, members) ==
    LET Parsed(rc, library) ==
            IF ~rc.ok THEN BFail(B, rc.err.kind, rc.err.args)
            ELSE IF library # << >> /\ rc.val.library # << >>
            THEN BFail(B, "BridgeError", <<"invalid class info">>)
            ELSE get_cli_type_instance_for_parametrized_class_info(
                     B, IF library # << >>
                        THEN ParametrizedClassInfo(rc.val.name, rc.val.parameters, library)
                        ELSE rc.val, members)
        Library(rl) ==
            IF ~rl.ok THEN BFail(B, rl.err.kind, rl.err.args)
            ELSE Parsed(parse_class_name(name), <<rl.val>>)
        Properties(rp) ==
            IF ~rp.ok THEN BFail(B, rp.err.kind, rp.err.args)
            ELSE Library(build_library_info_from_property_dict(rp.val))
    IN  IF library_id = << >> THEN Parsed(parse_class_name(name), << >>)
        ELSE IF library_id[1] \notin DOMAIN B.result.ctx.library_id_name_mappings
        THEN BFail(B, "KeyError", <<library_id[1]>>)
        ELSE Properties(parse_properties(
                 [i \in 1..Len(split(B.result.ctx.library_id_name_mappings[library_id[1]])) |->
                     StrTok(split(B.result.ctx.library_id_name_mappings[library_id[1]])[i])]))

get_cli_type_instance_for_class_info(B, info) ==
    InstanceForName(B, info.name, info.library_id, info.members)
get_cli_type_instance_for_class_type_info(B, info) ==
    InstanceForName(B, info.name, <<info.library_id>>, << >>)

(* Bridge._get_cli_type_instance_for_type_info *)
get_cli_type_instance_for_type_info(B, info) ==
    CASE info.binary_type = 0 -> BRes(B, Builtin(PrimitiveBuiltin(info.additional_info.v)))
      [] info.binary_type = 1 -> BRes(B, Builtin("SYSTEM_STRING"))
      [] info.binary_type = 4 -> get_cli_type_instance_for_class_type_info(B, info.additional_info)
      [] info.binary_type = 3 ->
            LET Parsed(rc) ==
                    IF ~rc.ok THEN BFail(B, rc.err.kind, rc.err.args)
                    ELSE get_cli_type_instance_for_parametrized_class_info(B, rc.val, << >>)
            IN  Parsed(parse_class_name(info.additional_info.s))
      [] info.binary_type = 2 -> BRes(B, Builtin("SYSTEM_OBJECT"))
      [] OTHER -> BFail(B, "NotImplementedError", << >>)

(* Bridge._get_array_type *)
get_array_type(B, elem_type) ==
    LET Cached(r) ==
            IF ~r.ok THEN r
            ELSE BRes([r.B EXCEPT !.array_types = Put(@, <<elem_type, 0>>, r.val)], r.val)
    IN  IF <<elem_type, 0>> \in DOMAIN B.array_types THEN BRes(B, B.array_types[<<elem_type, 0>>])
        ELSE Cached(array_of(B, elem_type))

(* Bridge._get_cli_type_instance_for_array_info *)
get_cli_type_instance_for_array_info(B, info) ==
    LET Element(r) == IF ~r.ok THEN r ELSE get_array_type(r.B, r.val)
    IN  IF info.type # <<0>> THEN BFail(B, "NotImplementedError", << >>)
        ELSE IF Len(info.shape) # 1 THEN BFail(B, "NotImplementedError", << >>)
        ELSE IF info.type_info = << >> THEN BFail(B, "AssertionError", << >>)
        ELSE Element(get_cli_type_instance_for_type_info(B, info.type_info[1]))

(* a CLIValue object as an item of a Python tuple or list *)
CLIRef(addr) == [t |-> "CLIValue", addr |-> addr]

(* the Instance or Array object a decoded value is, or the value itself *)
Deref(B, v) == IF v.t = "obj" THEN B.result.heap[v.addr] ELSE v

(* isinstance(value, CLIBasicValue) and                                     *)
(* value.type_instance.derived_from.origin == ARRAY_TYPE                    *)
IsArrayValue(B, value) ==
    /\ B.vh[value].t = "CLIBasicValue"
    /\ origin(B, B.ih[B.vh[value].type_instance].derived_from) = Global("ARRAY_TYPE")

(* sequence[:len_] for len_ an int, a bool or None *)
SliceTo(items, len_) ==
    LET n == IF len_.t = "bool" THEN (IF len_.v THEN 1 ELSE 0) ELSE len_.v
    IN  IF len_.t = "None" THEN items
        ELSE IF n >= 0 THEN SubSeq(items, 1, Min(n, Len(items)))
        ELSE IF Len(items) + n <= 0 THEN << >>
        ELSE SubSeq(items, 1, Len(items) + n)

(* len(x) of a Python value; << >> where len raises TypeError *)
PyLen(x) ==
    CASE x.t \in {"tuple", "list"} -> <<Len(x.items)>>
      [] x.t = "str" -> <<Len(x.s)>>
      [] OTHER -> << >>

(* the loop of _convert_dictionary_value over value.value from i on *)
RECURSIVE DictionaryPairs(_, _, _)
DictionaryPairs(B, pairs, i) ==
    LET pair == pairs[i]
        Rest(rest) == IF ~rest.ok THEN rest ELSE BOk(<<B.vh[pair.addr].value>> \o rest.val)
    IN  IF i > Len(pairs) THEN BOk(<< >>)
        ELSE IF pair.t = "None" THEN DictionaryPairs(B, pairs, i + 1)
        ELSE IF B.vh[pair.addr].t # "CLIBasicValue" THEN BErr("AttributeError", <<"value">>)
        ELSE IF PyLen(B.vh[pair.addr].value) = << >> THEN BErr("TypeError", <<"len">>)
        ELSE IF PyLen(B.vh[pair.addr].value) # <<2>> THEN BErr("AssertionError", << >>)
        ELSE Rest(DictionaryPairs(B, pairs, i + 1))

RecursionLimit == 8

RECURSIVE convert_value(_, _, _)

(* [self._convert_value(e) for e in values], from i on: the addresses *)
RECURSIVE ConvertValues(_, _, _, _)
ConvertValues(B, values, i, depth) ==
    LET Both(r, rest) == IF ~rest.ok THEN rest ELSE BRes(rest.B, <<r.val>> \o rest.val)
        First(r) == IF ~r.ok THEN r ELSE Both(r, ConvertValues(r.B, values, i + 1, depth))
    IN  IF i > Len(values) THEN BRes(B, << >>)
        ELSE First(convert_value(B, values[i], depth))

(* {mi.name: self._convert_value(_v) for mi, _v in zip(members, values)} *)
RECURSIVE ConvertMembers(_, _, _, _, _, _)
ConvertMembers(B, members, values, i, member_dict, depth) ==
    LET Next(r) ==
            IF ~r.ok THEN r
            ELSE ConvertMembers(r.B, members, values, i + 1,
                                DictSet(member_dict, members[i].name, r.val), depth)
    IN  IF i > Len(members) \/ i > Len(values) THEN BRes(B, member_dict)
        ELSE Next(convert_value(B, values[i], depth))

(* Bridge._convert_array_list_value *)
convert_array_list_value(B, ti, v, depth) ==
    LET Converted(r) ==
            IF ~r.ok THEN r
            ELSE IF Len(v.values[1]) < 2 THEN BFail(r.B, "IndexError", << >>)
            ELSE IF ~IsArrayValue(r.B, r.val)
            THEN BFail(r.B, "BridgeError", <<"must be an array">>)
            ELSE IF v.values[1][2].t \notin {"int", "bool", "None"}
            THEN BFail(r.B, "TypeError", <<"slice indices">>)
            ELSE ti_instantiate(r.B, ti,
                                ListV(SliceTo(r.B.vh[r.val].value.items, v.values[1][2])),
                                << >>, << >>)
    IN  IF v.values[1] = << >> THEN BFail(B, "IndexError", << >>)
        ELSE Converted(convert_value(B, v.values[1][1], depth))

(* Bridge._convert_dictionary_value *)
convert_dictionary_value(B, ti, v, depth) ==
    LET Pairs(B1, rp) ==
            IF ~rp.ok THEN BFail(B1, rp.err.kind, rp.err.args)
            ELSE ti_instantiate(B1, ti, ListV(rp.val), << >>, << >>)
        Converted(r) ==
            IF ~r.ok THEN r
            ELSE IF ~IsArrayValue(r.B, r.val)
            THEN BFail(r.B, "BridgeError", <<"must be an array">>)
            ELSE Pairs(r.B, DictionaryPairs(r.B, r.B.vh[r.val].value.items, 1))
    IN  IF Len(v.values[1]) < 4 THEN BFail(B, "IndexError", << >>)
        ELSE Converted(convert_value(B, v.values[1][4], depth))

(* Bridge._convert_key_value_pair_value *)
convert_key_value_pair_value(B, ti, v, depth) ==
    LET Converted(r) ==
            IF ~r.ok THEN r
            ELSE IF Len(r.val) # 2
            THEN BFail(r.B, "BridgeError", <<"must have a two element sequence">>)
            ELSE ti_instantiate(r.B, ti, TupleV([i \in 1..2 |-> CLIRef(r.val[i])]),
                                << >>, << >>)
    IN  Converted(ConvertValues(B, v.values[1], 1, depth))

(* Bridge._convert_value, nested depth deep; Python gives up with a         *)
(* RecursionError when the calls nest too deep.  _get_value_for_object_id   *)
(* is the ObjectReference branch.                                           *)
convert_value(B, v, depth) ==
    LET o == Deref(B, v)
        Store(object_id, r) ==
            IF ~r.ok THEN r ELSE BRes([r.B EXCEPT !.objects = Put(@, object_id, r.val)], r.val)
        Composite(ti, rm) ==
            IF ~rm.ok THEN rm ELSE ti_instantiate(rm.B, ti, NoneV, << >>, <<rm.val>>)
        Intrinsic(B1, ti) ==
            IF o.values = << >> THEN BFail(B1, "BridgeError", <<"must have a value">>)
            ELSE IF ti = Builtin("SYSTEM_COLLECTIONS_ARRAYLIST")
            THEN convert_array_list_value(B1, ti, o, depth + 1)
            ELSE IF origin(B1, B1.ih[ti].derived_from) = Global("SYSTEM_COLLECTIONS_GENERIC_LIST")
            THEN convert_array_list_value(B1, ti, o, depth + 1)
            ELSE IF origin(B1, B1.ih[ti].derived_from)
                        = Global("SYSTEM_COLLECTIONS_GENERIC_DICTIONARY")
            THEN convert_dictionary_value(B1, ti, o, depth + 1)
            ELSE IF origin(B1, B1.ih[ti].derived_from)
                        = Global("SYSTEM_COLLECTIONS_GENERIC_KEYVALUEPAIR")
            THEN convert_key_value_pair_value(B1, ti, o, depth + 1)
            ELSE BFail(B1, "NotImplementedError", << >>)
        InstanceOf(rt) ==
            IF ~rt.ok THEN rt
            ELSE IF rt.B.th[rt.B.ih[rt.val].derived_from].intrinsic
            THEN Store(o.class_info.object_id, Intrinsic(rt.B, rt.val))
            ELSE IF o.values = << >>
            THEN Store(o.class_info.object_id, ti_instantiate(rt.B, rt.val, NoneV, << >>, << >>))
            ELSE Store(o.class_info.object_id,
                       Composite(rt.val, ConvertMembers(rt.B, o.class_info.members,
                                                        o.values[1], 1, << >>, depth + 1)))
        Listed(ti, re) ==
            IF ~re.ok THEN re
            ELSE ti_instantiate(re.B, ti, ListV([i \in 1..Len(re.val) |-> CLIRef(re.val[i])]),
                                << >>, << >>)
        Repeated(ti, n, r) ==
            IF ~r.ok THEN r
            ELSE ti_instantiate(r.B, ti, ListV([i \in 1..n |-> CLIRef(r.val)]), << >>, << >>)
        ArrayOf(rt) ==
            IF ~rt.ok THEN rt
            ELSE IF o.values = << >>
            THEN Store(o.array_info.object_id,
                       Repeated(rt.val, o.array_info.shape[1],
                                convert_value(rt.B, NoneV, depth + 1)))
            ELSE IF Len(o.values[1]) # o.array_info.shape[1]
            THEN BFail(rt.B, "BridgeError", <<"array element count">>)
            ELSE Store(o.array_info.object_id,
                       Listed(rt.val, ConvertValues(rt.B, o.values[1], 1, depth + 1)))
    IN  IF depth > RecursionLimit THEN BFail(B, "RecursionError", << >>)
        ELSE IF o.t = "Instance" THEN InstanceOf(get_cli_type_instance_for_class_info(B, o.class_info))
        ELSE IF o.t = "Array" THEN ArrayOf(get_cli_type_instance_for_array_info(B, o.array_info))
        ELSE IF o.t = "ObjectReference"
        THEN IF o.object_id \in DOMAIN B.objects THEN BRes(B, B.objects[o.object_id])
             ELSE IF o.object_id \notin DOMAIN B.result.ctx.objects
             THEN BFail(B, "KeyError", <<o.object_id>>)
             ELSE convert_value(B, B.result.ctx.objects[o.object_id], depth + 1)
        ELSE from_python_value(B, o)

(* the qualified name the caches of Bridge.__init__ are keyed by *)
QualifiedName(t) == t.namespace \o <<46>> \o t.name

(* Bridge.__init__ *)
NewBridge(result) ==
    LET name(g) == QualifiedName(ModuleTypes[Global(g)].type)
        TypeEntry(d, g, arity) == Put(d, <<name(g), << >>, arity>>, Global(g))
        InstanceEntry(d, g) == Put(d, ParametrizedClassInfo(name(g), << >>, << >>), Builtin(g))
        Built(r) ==
            [r.B EXCEPT
               !.types =
                   TypeEntry(TypeEntry(TypeEntry(<< >>,
                       "SYSTEM_COLLECTIONS_GENERIC_LIST", 1),
                       "SYSTEM_COLLECTIONS_GENERIC_DICTIONARY", 2),
                       "SYSTEM_COLLECTIONS_GENERIC_KEYVALUEPAIR", 2),
               !.instances =
                   InstanceEntry(InstanceEntry(InstanceEntry(InstanceEntry(<< >>,
                       "SYSTEM_COLLECTIONS_ARRAYLIST"), "SYSTEM_COLLECTIONS_DICTIONARY"),
                       "SYSTEM_OBJECT"), "SYSTEM_STRING")]
    IN  Built(NewBuiltins([result |-> result,
                           th |-> [i \in 1..Len(ModuleTypes) |-> ModuleTypes[i].type],
                           ih |-> << >>, vh |-> << >>, types |-> << >>, instances |-> << >>,
                           array_types |-> << >>,
                           namespaces |-> {<< >>, NsSystem, NsSystemCollections,
                                           NsSystemCollectionsGeneric},
                           objects |-> << >>]))

(* Bridge.get *)
bridge_get(B, id_) ==
    IF id_ \notin DOMAIN B.result.ctx.objects THEN BFail(B, "KeyError", <<id_>>)
    ELSE convert_value(B, B.result.ctx.objects[id_], 1)

(* Bridge.__call__ *)
bridge_call(B) ==
    IF B.result.ctx.root_id = << >>
    THEN BFail(B, "BridgeError", <<"root_id is not specified">>)
    ELSE bridge_get(B, B.result.ctx.root_id[1])

----------------------------------------------------------------------------
(* Decoding a stream and walking the result with the bridge: the decoder's  *)
(* loop, Bridge(result), then up to MaxCalls calls of bridge() and          *)
(* bridge.get(id).                                                          *)

MaxCalls == 2

(* Bridge(ctx) on the context the decoder returned *)
BridgeInit ==
    /\ pc = "returned"
    /\ bridge = << >>
    /\ bridge' = <<NewBridge(DState(ctx, heap))>>
    /\ UNCHANGED <<f, pos, pc, err, arg, ret, decVars, calls, xmlVars>>

(* what a call did: the id asked for (<< >> for the root), and the address  *)
(* of the Value returned or the exception raised                            *)
CallRecord(id_, r) ==
    [id |-> id_, ok |-> r.ok, err |-> r.err, val |-> IF r.ok THEN <<r.val>> ELSE << >>]

(* bridge() *)
BridgeCall ==
    /\ bridge # << >>
    /\ Len(calls) < MaxCalls
    /\ LET Called(r) ==
               /\ bridge' = <<r.B>>
               /\ calls' = Append(calls, CallRecord(<< >>, r))
       IN  Called(bridge_call(bridge[1]))
    /\ UNCHANGED <<f, pos, pc, err, arg, ret, decVars, xmlVars>>

(* bridge.get(id_) *)
BridgeGet ==
    /\ bridge # << >>
    /\ Len(calls) < MaxCalls
    /\ \E id_ \in DOMAIN ctx.objects :
           LET Called(r) ==
                   /\ bridge' = <<r.B>>
                   /\ calls' = Append(calls, CallRecord(<<id_>>, r))
           IN  Called(bridge_get(bridge[1], id_))
    /\ UNCHANGED <<f, pos, pc, err, arg, ret, decVars, xmlVars>>

(* the bytes of records, as the format prescribes: a member's type is its   *)
(* BinaryType byte and its additional info                                  *)
TypeBytes(binary_type, info) == [tag |-> <<binary_type>>, info |-> info]
PrimitiveMember(prim) == TypeBytes(0, <<prim>>)
StringMember == TypeBytes(1, << >>)
ObjectMember == TypeBytes(2, << >>)
SystemClassMember(name) == TypeBytes(3, StringBytes(name))
ClassMember(name, library_id) == TypeBytes(4, StringBytes(name) \o Int32Bytes(library_id))
Member(name, type) == [name |-> name, type |-> type]
ClassBytes(object_id, name, members) ==
    Int32Bytes(object_id) \o StringBytes(name) \o Int32Bytes(Len(members))
        \o Concat([i \in 1..Len(members) |-> StringBytes(members[i].name)])
        \o Concat([i \in 1..Len(members) |-> members[i].type.tag])
        \o Concat([i \in 1..Len(members) |-> members[i].type.info])
SystemClassRecord(object_id, name, members, values) ==
    <<4>> \o ClassBytes(object_id, name, members) \o Concat(values)
ClassRecord(object_id, name, members, library_id, values) ==
    <<5>> \o ClassBytes(object_id, name, members) \o Int32Bytes(library_id) \o Concat(values)
ClassWithIdRecord(object_id, metadata_id, values) ==
    <<1>> \o Int32Bytes(object_id) \o Int32Bytes(metadata_id) \o Concat(values)
StringRecord(object_id, s) == <<6>> \o Int32Bytes(object_id) \o StringBytes(s)
ReferenceRecord(object_id) == <<9>> \o Int32Bytes(object_id)
NullRecord == <<10>>
NullsRecord(n) == <<13, n>>
LibraryRecord(library_id, name) == <<12>> \o Int32Bytes(library_id) \o StringBytes(name)
ArrayRecord(object_id, n, type, values) ==
    <<7>> \o Int32Bytes(object_id) \o <<0>> \o Int32Bytes(1) \o Int32Bytes(n)
          \o type.tag \o type.info \o Concat(values)
PrimitiveArrayRecord(object_id, n, prim, values) ==
    <<15>> \o Int32Bytes(object_id) \o Int32Bytes(n) \o <<prim>> \o Concat(values)

(* name`n[[p1],...,[pn]] *)
GenericName(name, parameters) ==
    name \o <<96>> \o DecimalStr(Len(parameters)) \o <<91>>
         \o Concat([i \in 1..Len(parameters) |->
                       (IF i > 1 THEN <<44>> ELSE << >>) \o <<91>> \o parameters[i] \o <<93>>])
         \o <<93>>
ModuleTypeName(g) == QualifiedName(ModuleTypes[Global(g)].type)

(* "N.Foo", "N.Bar", "N.B", "N.Node", "N.G", "k" and the library name       *)
(* "lib, Version=1, Culture=n"; members are named by one letter a..z        *)
NameFoo == <<78, 46, 70, 111, 111>>
NameBar == <<78, 46, 66, 97, 114>>
NameNB == <<78, 46, 66>>
NameNode == <<78, 46, 78, 111, 100, 101>>
NameG == <<78, 46, 71>>
TextK == <<107>>
NameLib == <<108, 105, 98, 44, 32>> \o KeyVersion \o <<61, 49, 44, 32>> \o KeyCulture \o <<61, 110>>
Letter(i) == <<96 + i>>

NameKeyValuePair ==
    GenericName(ModuleTypeName("SYSTEM_COLLECTIONS_GENERIC_KEYVALUEPAIR"),
                <<ModuleTypeName("SYSTEM_STRING"), ModuleTypeName("SYSTEM_INT32")>>)
NameDictionary ==
    GenericName(ModuleTypeName("SYSTEM_COLLECTIONS_GENERIC_DICTIONARY"),
                <<ModuleTypeName("SYSTEM_STRING"), ModuleTypeName("SYSTEM_INT32")>>)
NameList(parameter) == GenericName(ModuleTypeName("SYSTEM_COLLECTIONS_GENERIC_LIST"), <<parameter>>)

(* records the scenarios share: an N.Foo with one Int32 member, a           *)
(* KeyValuePair<String, Int32>, an object with n Object members, and a      *)
(* Dictionary<String, Int32> whose member 3 refers to the array of id 3     *)
FooRecord(object_id) ==
    SystemClassRecord(object_id, NameFoo, <<Member(Letter(1), PrimitiveMember(8))>>,
                      <<Int32Bytes(7)>>)
PairRecord(object_id, key_id) ==
    SystemClassRecord(object_id, NameKeyValuePair,
                      <<Member(Letter(11), StringMember), Member(Letter(22), PrimitiveMember(8))>>,
                      <<StringRecord(key_id, TextK), Int32Bytes(1)>>)
HolderRecord(object_id, name, values) ==
    SystemClassRecord(object_id, name,
                      [i \in 1..Len(values) |-> Member(Letter(23 + i), ObjectMember)], values)
DictionaryRecords(n, slots) ==
    <<SystemClassRecord(1, NameDictionary,
                        <<Member(Letter(22), PrimitiveMember(8)), Member(Letter(3), ObjectMember),
                          Member(Letter(8), PrimitiveMember(8)), Member(Letter(11), ObjectMember)>>,
                        <<Int32Bytes(1), NullRecord, Int32Bytes(3), ReferenceRecord(3)>>),
      ArrayRecord(3, n, SystemClassMember(NameKeyValuePair), slots)>>

(* the records between the header and MessageEnd of each scenario *)
BridgeScenarios == {
    <<FooRecord(1)>>,
    <<SystemClassRecord(1, NameBar, <<Member(Letter(6), SystemClassMember(NameFoo))>>,
                        <<FooRecord(2)>>)>>,
    <<HolderRecord(1, NameBar, <<FooRecord(2)>>)>>,
    <<SystemClassRecord(1, NameBar,
                        <<Member(Letter(6), SystemClassMember(NameList(NameFoo))),
                          Member(Letter(7), ObjectMember)>>,
                        <<NullRecord, FooRecord(2)>>)>>,
    <<SystemClassRecord(1, NameBar,
                        <<Member(Letter(6), SystemClassMember(GenericName(NameG, <<NameNA>>))),
                          Member(Letter(7), ObjectMember), Member(Letter(8), ObjectMember)>>,
                        <<NullRecord,
                          SystemClassRecord(2, GenericName(NameG, <<NameNB>>),
                                            <<Member(Letter(1), PrimitiveMember(8))>>,
                                            <<Int32Bytes(7)>>),
                          SystemClassRecord(3, GenericName(NameG, <<NameNA>>),
                                            <<Member(Letter(1), PrimitiveMember(8))>>,
                                            <<Int32Bytes(7)>>)>>)>>,
    <<HolderRecord(1, NameNA, <<StringRecord(2, TextHi), ReferenceRecord(2)>>)>>,
    <<HolderRecord(1, NameNA, <<ReferenceRecord(2), ReferenceRecord(2)>>), StringRecord(2, TextHi)>>,
    <<HolderRecord(1, NameNA, <<ReferenceRecord(2), ReferenceRecord(2)>>), FooRecord(2)>>,
    <<HolderRecord(1, NameNA, <<FooRecord(2), ReferenceRecord(2)>>)>>,
    <<HolderRecord(1, NameNA, <<ReferenceRecord(2), ReferenceRecord(3), NullRecord>>),
      HolderRecord(3, NameNB, <<FooRecord(2)>>)>>,
    <<HolderRecord(1, NameNA, <<ReferenceRecord(2), ReferenceRecord(2)>>),
      PrimitiveArrayRecord(2, 2, 8, <<Int32Bytes(5), Int32Bytes(6)>>)>>,
    <<HolderRecord(1, NameNA, <<FooRecord(2), ClassWithIdRecord(3, 2, <<Int32Bytes(9)>>)>>)>>,
    <<HolderRecord(1, NameNode, <<ReferenceRecord(1)>>)>>,
    <<HolderRecord(1, NameNode, <<ReferenceRecord(2)>>),
      HolderRecord(2, NameNode, <<ReferenceRecord(1)>>)>>,
    DictionaryRecords(1, <<PairRecord(4, 5)>>),
    DictionaryRecords(2, <<PairRecord(4, 5), NullRecord>>),
    DictionaryRecords(2, <<NullsRecord(2)>>),
    DictionaryRecords(0, << >>),
    <<SystemClassRecord(1, NameList(ModuleTypeName("SYSTEM_INT32")),
                        <<Member(Letter(9), ObjectMember), Member(Letter(19), PrimitiveMember(8)),
                          Member(Letter(22), PrimitiveMember(8))>>,
                        <<ReferenceRecord(2), Int32Bytes(1), Int32Bytes(0)>>),
      PrimitiveArrayRecord(2, 2, 8, <<Int32Bytes(5), Int32Bytes(6)>>)>>,
    <<LibraryRecord(2, NameLib),
      ClassRecord(1, NameBar,
                  <<Member(Letter(6), ClassMember(NameFoo, 2)), Member(Letter(7), ObjectMember)>>,
                  2, <<NullRecord, FooRecord(3)>>)>>,
    <<SystemClassRecord(1, <<70, 111, 111>>, << >>, << >>)>> }

BridgeStreams == {HeaderRecord(1, 0) \o Concat(recs) \o <<11>> : recs \in BridgeScenarios}

InitBridge ==
    /\ f \in {File(data, 0) : data \in BridgeStreams}
    /\ pos = 0
    /\ pc = "loop_test"
    /\ err = NoErr
    /\ arg = NoArg
    /\ ret = NoRet
    /\ DecodeIdle
    /\ BridgeIdle
    /\ XmlIdle

NextBridge ==
    \/ LoopTest
    \/ ReadCode
    \/ InvokeHandler
    \/ DrainNext
    \/ DrainDone
    \/ BridgeInit
    \/ BridgeCall
    \/ BridgeGet

SpecBridge == InitBridge /\ [][NextBridge]_vars

(* C1: a non-intrinsic Instance record whose class info declares k members  *)
(* and whose member values were read is converted to a CompositeObject      *)
(* with exactly k member values, a scalar member value being the basic      *)
(* value of the value read, whether or not the same class name was          *)
(* resolved before without its members (as the type of another class's      *)
(* member).                                                                 *)
C1_CompositeHasDeclaredMembers ==
    bridge # << >> =>
        LET B == bridge[1]
            Returned(id_) ==
                {calls[c].val[1] : c \in {c \in 1..Len(calls) :
                     /\ calls[c].ok
                     /\ id_ = IF calls[c].id = << >> THEN ctx.root_id[1] ELSE calls[c].id[1]}}
            Converts(value, v) ==
                v.t \in {"int", "str"} =>
                    /\ B.vh[value].t = "CLIBasicValue"
                    /\ B.vh[value].value = v
        IN  \A id_ \in DOMAIN ctx.objects : \A value \in Returned(id_) :
                LET o == Deref(B, ctx.objects[id_])
                IN  (/\ o.t = "Instance"
                     /\ o.values # << >>
                     /\ ~B.th[B.ih[B.vh[value].type_instance].derived_from].intrinsic)
                    => /\ B.vh[value].t = "CLICompositeObject"
                       /\ Len(B.vh[value].members) = Len(o.class_info.members)
                       /\ \A i \in 1..Len(o.class_info.members) :
                              Converts(B.vh[value].members[i], o.values[1][i])

(* C2: the bridge makes at most one Value per object id: two lookups of the *)
(* same id (by bridge() or bridge.get) return the identical Value, and two  *)
(* members of a converted object that refer to the same id (by an           *)
(* ObjectReference or by the record itself) hold the identical Value,       *)
(* whatever kind of record carries the id.                                  *)
C2_OneValuePerObjectId ==
    bridge # << >> =>
        LET B == bridge[1]
            Target(c) == IF calls[c].id = << >> THEN ctx.root_id[1] ELSE calls[c].id[1]
            RefId(v) ==
                IF v.t = "ObjectReference" THEN {v.object_id}
                ELSE IF v.t # "obj" THEN {}
                ELSE {k \in DOMAIN ctx.objects :
                         ctx.objects[k].t = "obj" /\ ctx.objects[k].addr = v.addr}
            Ok == {c \in 1..Len(calls) : calls[c].ok}
        IN  /\ \A c, d \in Ok : Target(c) = Target(d) => calls[c].val = calls[d].val
            /\ \A c \in Ok :
                   LET o == Deref(B, ctx.objects[Target(c)])
                       value == B.vh[calls[c].val[1]]
                   IN  (/\ o.t = "Instance"
                        /\ o.values # << >>
                        /\ value.t = "CLICompositeObject"
                        /\ Len(value.members) = Len(o.values[1]))
                       => \A i, j \in 1..Len(value.members) :
                              RefId(o.values[1][i]) \cap RefId(o.values[1][j]) # {}
                              => value.members[i] = value.members[j]

(* C3: when an Instance holds an ObjectReference to its own id, directly or *)
(* through another Instance, the walk of the bridge from that Instance      *)
(* terminates with a Value, and the member that refers back to the          *)
(* Instance is that very Value.                                             *)
C3_SelfReferenceTerminates ==
    bridge # << >> =>
        LET B == bridge[1]
            Target(c) == IF calls[c].id = << >> THEN ctx.root_id[1] ELSE calls[c].id[1]
            Values(id_) ==
                LET o == Deref(B, ctx.objects[id_])
                IN  IF o.t = "Instance" /\ o.values # << >> THEN o.values[1] ELSE << >>
            Refs(id_) ==
                {Values(id_)[i].object_id :
                    i \in {i \in 1..Len(Values(id_)) : Values(id_)[i].t = "ObjectReference"}}
                \cap DOMAIN ctx.objects
            Cyclic(id_) == id_ \in Refs(id_) \/ \E j \in Refs(id_) : id_ \in Refs(j)
        IN  \A c \in 1..Len(calls) :
                Cyclic(Target(c)) =>
                    /\ calls[c].ok
                    /\ B.vh[calls[c].val[1]].t = "CLICompositeObject"
                    /\ \A i \in 1..Len(Values(Target(c))) :
                           Values(Target(c))[i] = ObjectReference(Target(c))
                           => B.vh[calls[c].val[1]].members[i] = calls[c].val[1]

(* C8: a Dictionary<K, V> whose backing array of KeyValuePair (member       *)
(* index 3) has null slots is converted successfully: the value is the      *)
(* list of the (key, value) pairs of the slots that are not null, in        *)
(* order, with no None among them.                                          *)
C8_DictionaryNullSlotsDropped ==
    bridge # << >> =>
        LET B == bridge[1]
            Target(c) == IF calls[c].id = << >> THEN ctx.root_id[1] ELSE calls[c].id[1]
            Slots(o) ==
                LET a == IF o.values[1][4].t = "ObjectReference"
                         THEN Deref(B, ctx.objects[o.values[1][4].object_id])
                         ELSE Deref(B, o.values[1][4])
                IN  IF a.values = << >> THEN [i \in 1..a.array_info.shape[1] |-> NoneV]
                    ELSE a.values[1]
            Filled(slots) == {i \in 1..Len(slots) : slots[i] # NoneV}
        IN  \A c \in 1..Len(calls) :
                LET o == Deref(B, ctx.objects[Target(c)])
                IN  (/\ o.t = "Instance"
                     /\ o.class_info.name = NameDictionary
                     /\ Filled(Slots(o)) # 1..Len(Slots(o)))
                    => /\ calls[c].ok
                       /\ B.vh[calls[c].val[1]].value.t = "list"
                       /\ Len(B.vh[calls[c].val[1]].value.items) = Cardinality(Filled(Slots(o)))
                       /\ \A i \in 1..Len(B.vh[calls[c].val[1]].value.items) :
                              /\ B.vh[calls[c].val[1]].value.items[i].t = "tuple"
                              /\ Len(B.vh[calls[c].val[1]].value.items[i].items) = 2

----------------------------------------------------------------------------
(* The Data Contract XML decoder (datacontract/).  Text (element names,     *)
(* attribute values, character data, XSD type names) is a sequence of code  *)
(* points; a namespace URI is a string.  The CLI state C holds th, ih and   *)
(* vh as the bridge state does.                                             *)

XMLSCHEMA_NAMESPACE == "http://www.w3.org/2001/XMLSchema"
XMLSCHEMA_INSTANCE_NAMESPACE == "http://www.w3.org/2001/XMLSchema-instance"

(* the XSD_TYPE_NAME of each serializer of SERIALIZERS: "dateTime",         *)
(* "base64Binary", "long", "double", "decimal", "bool", "string"            *)
XsDateTime == <<100, 97, 116, 101, 84, 105, 109, 101>>
XsBase64Binary == <<98, 97, 115, 101, 54, 52, 66, 105, 110, 97, 114, 121>>
XsLong == <<108, 111, 110, 103>>
XsDouble == <<100, 111, 117, 98, 108, 101>>
XsDecimal == <<100, 101, 99, 105, 109, 97, 108>>
XsBool == <<98, 111, 111, 108>>
XsString == <<115, 116, 114, 105, 110, 103>>

(* "true", "false", "1" *)
TextTrue == <<116, 114, 117, 101>>
TextFalse == <<102, 97, 108, 115, 101>>
TextOne == <<49>>

(* str.lower() of ASCII text *)
Lower(s) == [i \in 1..Len(s) |-> IF s[i] \in 65..90 THEN s[i] + 32 ELSE s[i]]

(* Python's int is unbounded.  The magnitude of an int is kept as its       *)
(* decimal digits, most significant first and without leading zeros (<< >>  *)
(* for 0), so that values beyond the machine integer are computed exactly.  *)
RECURSIVE StripZeros(_)
StripZeros(d) == IF d # << >> /\ Head(d) = 0 THEN StripZeros(Tail(d)) ELSE d

(* a <= b for two magnitudes *)
MagLE(a, b) ==
    \/ Len(a) < Len(b)
    \/ /\ Len(a) = Len(b)
       /\ \/ a = b
          \/ \E i \in 1..Len(a) : a[i] < b[i] /\ \A j \in 1..(i - 1) : a[j] = b[j]

(* floor(d / 2) and d - 1 (for d > 0) *)
RECURSIVE HalveFrom(_, _)
HalveFrom(d, carry) ==
    IF d = << >> THEN << >>
    ELSE <<(10 * carry + Head(d)) \div 2>> \o HalveFrom(Tail(d), (10 * carry + Head(d)) % 2)
Halve(d) == StripZeros(HalveFrom(d, 0))
RECURSIVE MagPred(_)
MagPred(d) ==
    IF d[Len(d)] > 0 THEN StripZeros([d EXCEPT ![Len(d)] = @ - 1])
    ELSE MagPred(SubSeq(d, 1, Len(d) - 1)) \o <<9>>

(* the largest magnitude kept as a machine integer: 2^31 - 1 *)
MagInt32Max == <<2, 1, 4, 7, 4, 8, 3, 6, 4, 7>>
RECURSIVE MagValue(_)
MagValue(d) == IF d = << >> THEN 0 ELSE 10 * MagValue(SubSeq(d, 1, Len(d) - 1)) + d[Len(d)]

(* the int of sign neg and magnitude mag as a Python value *)
PyInt(neg, mag) ==
    IF MagLE(mag, MagInt32Max) THEN IntV(IF neg THEN 0 - MagValue(mag) ELSE MagValue(mag))
    ELSE [t |-> "int", v |-> [neg |-> neg, mag |-> mag]]

(* int(value) for a str: white space stripped, an optional sign, ASCII      *)
(* digits with single underscores between them; [neg, mag] or ValueError    *)
PyIntOfStr(value) ==
    LET s == strip(value)
        body == IF s # << >> /\ Head(s) \in {43, 45} THEN Tail(s) ELSE s
        digits == SelectSeq(body, IsDigit)
    IN  IF \/ body = << >>
           \/ \E i \in 1..Len(body) : ~IsDigit(body[i]) /\ body[i] # 95
           \/ ~IsDigit(body[1]) \/ ~IsDigit(body[Len(body)])
           \/ \E i \in 1..(Len(body) - 1) : body[i] = 95 /\ body[i + 1] = 95
        THEN BErr("ValueError", <<value>>)
        ELSE BOk([neg |-> Head(s) = 45 /\ StripZeros([i \in 1..Len(digits) |-> digits[i] - 48]) # << >>,
                  mag |-> StripZeros([i \in 1..Len(digits) |-> digits[i] - 48])])

(* int.bit_length() of an int of magnitude d *)
RECURSIVE bit_length(_)
bit_length(d) == IF d = << >> THEN 0 ELSE 1 + bit_length(Halve(d))

(* BooleanSerializer.deserialize *)
BooleanDeserialize(C, value) ==
    IF Lower(value) = TextTrue \/ Lower(value) = TextOne
    THEN NewValue(C, CLIBasicValue(Builtin("SYSTEM_BOOLEAN"), BoolV(TRUE)))
    ELSE IF Lower(value) = TextFalse \/ Lower(value) = TextFalse
    THEN NewValue(C, CLIBasicValue(Builtin("SYSTEM_BOOLEAN"), BoolV(FALSE)))
    ELSE BFail(C, "ValueError", <<Lower(value)>>)

(* LongBits without the sign bit of a positive value *)
LongBits_Unsigned(v) ==
    IF ~v.neg /\ v.mag # << >> THEN bit_length(v.mag)
    ELSE IF v.mag = << >> THEN bit_length(<<1>>) + 1
    ELSE bit_length(MagPred(v.mag)) + 1

(* the bit length LongSerializer.deserialize computes for _value:           *)
(* _value.bit_length() + 1 if _value > 0, else (_value + 1).bit_length() + 1 *)
LongBits(v) ==
    IF ~v.neg /\ v.mag # << >> THEN bit_length(v.mag) + 1
    ELSE IF v.mag = << >> THEN bit_length(<<1>>) + 1
    ELSE bit_length(MagPred(v.mag)) + 1

(* LongSerializer.deserialize *)
LongDeserialize(C, value) ==
    LET Typed(v) ==
            NewValue(C, CLIBasicValue(IF LongBits(v) <= 32 THEN Builtin("SYSTEM_INT32")
                                      ELSE Builtin("SYSTEM_INT64"), PyInt(v.neg, v.mag)))
        Parsed(r) == IF ~r.ok THEN BFail(C, r.err.kind, r.err.args) ELSE Typed(r.val)
    IN  Parsed(PyIntOfStr(value))

(* the value a serializer parses out of the text, where the parse itself    *)
(* is not modelled (dateTime, base64Binary, double, decimal)                *)
ParsedV(type_, text) == [t |-> "parsed", type |-> type_, text |-> text]

(* XSDataSerializer.deserialize: self.serializers[type_].deserialize(value) *)
xs_deserialize(C, type_, value) ==
    CASE type_ = XsBool -> BooleanDeserialize(C, value)
      [] type_ = XsLong -> LongDeserialize(C, value)
      [] type_ = XsString -> NewValue(C, CLIBasicValue(Builtin("SYSTEM_STRING"), StrV(value)))
      [] type_ = XsDateTime ->
            NewValue(C, CLIBasicValue(Builtin("SYSTEM_DATETIME"), ParsedV(type_, value)))
      [] type_ = XsBase64Binary ->
            NewValue(C, CLIBasicValue(Builtin("SYSTEM_BYTE_ARRAY"), ParsedV(type_, value)))
      [] type_ = XsDouble ->
            NewValue(C, CLIBasicValue(Builtin("SYSTEM_DOUBLE"), ParsedV(type_, value)))
      [] type_ = XsDecimal ->
            NewValue(C, CLIBasicValue(Builtin("SYSTEM_DECIMAL"), ParsedV(type_, value)))
      [] OTHER -> BFail(C, "KeyError", <<type_>>)

(* the descriptors of datacontract/models.py; an attribute that is None is  *)
(* << >>, one that is set <<value>>                                         *)
TypeDescriptor(kind, cli_type, members, item_cli_type, item_descriptor, key_cli_type, value_cli_type) ==
    [kind |-> kind, cli_type |-> cli_type, members |-> members,
     item_cli_type |-> item_cli_type, item_descriptor |-> item_descriptor,
     key_cli_type |-> key_cli_type, value_cli_type |-> value_cli_type]
BasicTypeDescriptor(cli_type) ==
    TypeDescriptor("Basic", cli_type, << >>, << >>, << >>, << >>, << >>)
CompositeTypeDescriptor(cli_type, members) ==
    TypeDescriptor("Composite", cli_type, members, << >>, << >>, << >>, << >>)
ArrayTypeDescriptor(cli_type, item_cli_type, item_descriptor) ==
    TypeDescriptor("Array", cli_type, << >>, item_cli_type, item_descriptor, << >>, << >>)
DictionaryTypeDescriptor(cli_type, key_cli_type, value_cli_type) ==
    TypeDescriptor("Dictionary", cli_type, << >>, << >>, << >>, key_cli_type, value_cli_type)
SingletonTypeDescriptor(cli_type) ==
    TypeDescriptor("Singleton", cli_type, << >>, << >>, << >>, << >>, << >>)
MemberDescriptor(name, namespace, type_descriptor, member_name) ==
    [name |-> name, namespace |-> namespace, type_descriptor |-> type_descriptor,
     member_name |-> member_name]

(* CompositeTypeDescriptor.name_to_member_map[name]: the last member of     *)
(* that name                                                                *)
name_to_member_map(descriptor, name) ==
    LET found == {i \in 1..Len(descriptor.members) : descriptor.members[i].name = name}
    IN  IF found = {} THEN BErr("KeyError", <<name>>)
        ELSE BOk(descriptor.members[CHOOSE i \in found : \A j \in found : j <= i])

(* the type names the decoder's context compares with: "IntPtr", ...;       *)
(* "Uint16", "Uint32", "Uint64" are spelled as there                        *)
NameIntPtr == <<73, 110, 116, 80, 116, 114>>
NameUIntPtr == <<85, 73, 110, 116, 80, 116, 114>>
NameSByte == <<83, 66, 121, 116, 101>>
NameInt16 == <<73, 110, 116, 49, 54>>
NameInt32 == <<73, 110, 116, 51, 50>>
NameInt64 == <<73, 110, 116, 54, 52>>
NameByte == <<66, 121, 116, 101>>
NameUint16 == <<85, 105, 110, 116, 49, 54>>
NameUint32 == <<85, 105, 110, 116, 51, 50>>
NameUint64 == <<85, 105, 110, 116, 54, 52>>
NameSingle == <<83, 105, 110, 103, 108, 101>>
NameDouble == <<68, 111, 117, 98, 108, 101>>
NameString == <<83, 116, 114, 105, 110, 103>>
NameDateTime == <<68, 97, 116, 101, 84, 105, 109, 101>>
NameTimeSpan == <<84, 105, 109, 101, 83, 112, 97, 110>>
NameBoolean == <<66, 111, 111, 108, 101, 97, 110>>
NameArrayList == <<65, 114, 114, 97, 121, 76, 105, 115, 116>>
NameGenericList == <<76, 105, 115, 116>>

(* _DeserializationContext.BUILTIN_TYPE_TO_TYPE_DESCRIPTOR_MAP *)
BUILTIN_TYPE_TO_TYPE_DESCRIPTOR_MAP ==
    LET Singleton(g) == SingletonTypeDescriptor(<<Builtin(g)>>)
        Basic(g) == BasicTypeDescriptor(<<Builtin(g)>>)
    IN  << <<NameIntPtr, Singleton("SYSTEM_INT64")>>,
           <<NameUIntPtr, Singleton("SYSTEM_UINT64")>>,
           <<NameSByte, Basic("SYSTEM_SBYTE")>>,
           <<NameInt16, Basic("SYSTEM_INT16")>>,
           <<NameInt32, Basic("SYSTEM_INT32")>>,
           <<NameInt64, Basic("SYSTEM_INT64")>>,
           <<NameByte, Basic("SYSTEM_BYTE")>>,
           <<NameUint16, Basic("SYSTEM_UINT16")>>,
           <<NameUint32, Basic("SYSTEM_UINT32")>>,
           <<NameUint64, Basic("SYSTEM_UINT64")>>,
           <<NameSingle, Basic("SYSTEM_SINGLE")>>,
           <<NameDouble, Basic("SYSTEM_DOUBLE")>>,
           <<NameString, Basic("SYSTEM_STRING")>>,
           <<NameDateTime, Basic("SYSTEM_DATETIME")>>,
           <<NameTimeSpan, Basic("SYSTEM_TIMESPAN")>> >>

(* BUILTIN_TYPE_TO_TYPE_DESCRIPTOR_MAP.get(name): << >> for None *)
BuiltinDescriptor(name) ==
    LET map == BUILTIN_TYPE_TO_TYPE_DESCRIPTOR_MAP
    IN  IF \E i \in DOMAIN map : map[i][1] = name
        THEN <<map[CHOOSE i \in DOMAIN map : map[i][1] = name][2]>>
        ELSE << >>

(* _DeserializationContext.type_descriptor_from_cli_type *)
type_descriptor_from_cli_type(C, cli_type) ==
    LET t == C.th[C.ih[cli_type].derived_from]
    IN  IF t.namespace = NsSystemCollections /\ t.name = NameArrayList
        THEN BOk(ArrayTypeDescriptor(<<cli_type>>, <<Builtin("SYSTEM_OBJECT")>>, << >>))
        ELSE IF t.namespace = NsSystemCollectionsGeneric /\ t.name = NameGenericList
        THEN IF t.parameters = << >> THEN BErr("IndexError", << >>)
             ELSE IF t.parameters[1] \notin DOMAIN RefsOf(C, cli_type)
             THEN BErr("KeyError", <<t.parameters[1]>>)
             ELSE BOk(ArrayTypeDescriptor(<<cli_type>>,
                                          <<RefsOf(C, cli_type)[t.parameters[1]]>>, << >>))
        ELSE IF t.namespace = NsSystem /\ BuiltinDescriptor(t.name) # << >>
        THEN BOk(BuiltinDescriptor(t.name)[1])
        ELSE BOk(CompositeTypeDescriptor(<<cli_type>>, << >>))

(* _DeserializationContext.xs_type_from_cli_type *)
xs_type_from_cli_type(C, cli_type) ==
    LET t == C.th[C.ih[cli_type].derived_from]
    IN  IF t.namespace # NsSystem THEN BErr("NotImplementedError", << >>)
        ELSE IF t.name \in {NameSByte, NameInt16, NameInt32, NameInt64, NameByte,
                            NameUint16, NameUint32, NameUint64}
        THEN BOk(XsLong)
        ELSE IF t.name = NameString THEN BOk(XsString)
        ELSE IF t.name = NameDateTime THEN BOk(XsDateTime)
        ELSE IF t.name = NameBoolean THEN BOk(XsBool)
        ELSE IF t.name \in {NameDouble, NameSingle} THEN BOk(XsDouble)
        ELSE BErr("NotImplementedError", << >>)

(* The handler stack (datacontract/handlers.py).  The decode state S holds  *)
(* handlers (the handler objects), handler (the parser's content handler),  *)
(* cli and pushed.  A value handed to push_value is None or a CLIValue.     *)

(* what an operation on the decode state gives *)
XRes(S, v) == [ok |-> TRUE, err |-> NoErr, S |-> S, val |-> v]
XFail(S, kind, args) == [ok |-> FALSE, err |-> Raise(kind, args), S |-> S, val |-> NoVal]

(* a handler object with the attributes its class and BaseHandler.__init__  *)
(* set: outer is 0 for None, _xmlns a copy of outer's                       *)
HandlerObject(S, cls, outer, descriptor, type_, anonymous_member) ==
    [cls |-> cls, outer |-> outer,
     xmlns |-> IF outer # 0 THEN S.handlers[outer].xmlns ELSE << >>,
     descriptor |-> descriptor, member |-> << >>, member_value_dict |-> << >>,
     anonymous_member |-> anonymous_member, items |-> << >>,
     type |-> type_, chunks |-> << >>, result |-> NoneV]

(* a new handler object: its index *)
NewHandler(S, h) == XRes([S EXCEPT !.handlers = Append(@, h)], Len(S.handlers) + 1)

(* an operation of the CLI model run on S.cli *)
OnCli(S, r) ==
    IF r.ok THEN XRes([S EXCEPT !.cli = r.B], r.val) ELSE XFail(S, r.err.kind, r.err.args)

(* SentinelHandler.__init__ *)
SentinelHandler(S) == NewHandler(S, HandlerObject(S, "SentinelHandler", 0, << >>, << >>, << >>))

(* MemberHandler.__init__ *)
MemberHandler(S, outer, descriptor) ==
    NewHandler(S, HandlerObject(S, "MemberHandler", outer, <<descriptor>>, << >>, << >>))

(* CompositeObjectHandler.__init__ *)
CompositeObjectHandler(S, outer, descriptor) ==
    NewHandler(S, HandlerObject(S, "CompositeObjectHandler", outer, <<descriptor>>, << >>, << >>))

(* BasicObjectHandler.__init__ *)
BasicObjectHandler(S, outer, type_) ==
    NewHandler(S, HandlerObject(S, "BasicObjectHandler", outer, << >>, type_, << >>))

(* NilObjectHandler(outer, ctx): BaseHandler.__init__ *)
NilObjectHandler(S, outer) ==
    NewHandler(S, HandlerObject(S, "NilObjectHandler", outer, << >>, << >>, << >>))

(* "*" *)
NameAny == <<42>>

(* the i-th type parameter of the container's type resolved in the          *)
(* container's context, after the assertions that the type has n            *)
(* parameters and that this one is resolved                                 *)
ContainerParameter(C, container_cli_type, n, i) ==
    LET t == C.th[C.ih[container_cli_type].derived_from]
    IN  IF Len(t.parameters) # n THEN BFail(C, "AssertionError", << >>)
        ELSE IF t.resolved_parameters[i] = << >> THEN BFail(C, "AssertionError", << >>)
        ELSE ResolveInContextOf(C, container_cli_type, t.resolved_parameters[i][1])

(* ArrayObjectHandler.__init__ *)
ArrayObjectHandler(S, outer, descriptor) ==
    LET Made(S1, item_descriptor) ==
            NewHandler(S1, HandlerObject(S1, "ArrayObjectHandler", outer, <<descriptor>>, << >>,
                                         <<MemberDescriptor(NameAny, << >>, item_descriptor, << >>)>>))
        Described(S1, r) == IF ~r.ok THEN XFail(S1, r.err.kind, r.err.args) ELSE Made(S1, r.val)
        Item(r) ==
            IF ~r.ok THEN r
            ELSE IF descriptor.item_descriptor # << >>
            THEN IF descriptor.item_descriptor[1].cli_type = << >>
                 THEN Made(r.S, [descriptor.item_descriptor[1] EXCEPT !.cli_type = <<r.val>>])
                 ELSE Made(r.S, descriptor.item_descriptor[1])
            ELSE Described(r.S, type_descriptor_from_cli_type(r.S.cli, r.val))
    IN  IF descriptor.kind # "Array" THEN XFail(S, "AssertionError", << >>)
        ELSE IF descriptor.item_cli_type # << >> THEN Item(XRes(S, descriptor.item_cli_type[1]))
        ELSE IF descriptor.cli_type = << >> THEN XFail(S, "AssertionError", << >>)
        ELSE Item(OnCli(S, ContainerParameter(S.cli, descriptor.cli_type[1], 1, 1)))

(* DictionaryObjectHandler.__init__ *)
DictionaryObjectHandler(S, outer, descriptor) ==
    LET Made(S1, pair, key, value) ==
            NewHandler(S1, HandlerObject(S1, "DictionaryObjectHandler", outer, <<descriptor>>,
                           << >>,
                           <<MemberDescriptor(NameAny, << >>,
                                 CompositeTypeDescriptor(<<pair>>,
                                     <<MemberDescriptor(MemberKey, << >>, key, << >>),
                                       MemberDescriptor(MemberValue, << >>, value, << >>)>>),
                                 << >>)>>))
        Described(S1, pair, k, v) ==
            IF ~k.ok THEN XFail(S1, k.err.kind, k.err.args)
            ELSE IF ~v.ok THEN XFail(S1, v.err.kind, v.err.args)
            ELSE Made(S1, pair, k.val, v.val)
        Paired(r, key, value) ==
            IF ~r.ok THEN r
            ELSE Described(r.S, r.val, type_descriptor_from_cli_type(r.S.cli, key),
                           type_descriptor_from_cli_type(r.S.cli, value))
        Typed(S1, key, value) ==
            Paired(OnCli(S1, instantiate(S1.cli, Global("SYSTEM_COLLECTIONS_GENERIC_KEYVALUEPAIR"),
                                         Collection(<<<<TIRef(key)>>, <<TIRef(value)>>>>))),
                   key, value)
        Both(k, v) == IF ~v.ok THEN v ELSE Typed(v.S, k.val, v.val)
        Resolved(k) ==
            IF ~k.ok THEN k
            ELSE Both(k, OnCli(k.S, ContainerParameter(k.S.cli, descriptor.cli_type[1], 2, 2)))
        Parameters(container_cli_type) ==
            S.cli.th[S.cli.ih[container_cli_type].derived_from].resolved_parameters
    IN  IF descriptor.kind # "Dictionary" THEN XFail(S, "AssertionError", << >>)
        ELSE IF descriptor.key_cli_type # << >>
        THEN IF descriptor.value_cli_type = << >> THEN XFail(S, "AssertionError", << >>)
             ELSE Typed(S, descriptor.key_cli_type[1], descriptor.value_cli_type[1])
        ELSE IF descriptor.value_cli_type # << >> \/ descriptor.cli_type = << >>
        THEN XFail(S, "AssertionError", << >>)
        ELSE IF \E i \in 1..Len(Parameters(descriptor.cli_type[1])) :
                    Parameters(descriptor.cli_type[1])[i] = << >>
        THEN XFail(S, "AssertionError", << >>)
        ELSE Resolved(OnCli(S, ContainerParameter(S.cli, descriptor.cli_type[1], 2, 1)))

(* SingletonObjectHandler.__init__ *)
SingletonObjectHandler(S, outer, descriptor) ==
    LET Described(r) ==
            IF ~r.ok THEN XFail(S, r.err.kind, r.err.args)
            ELSE NewHandler(S, HandlerObject(S, "SingletonObjectHandler", outer, <<descriptor>>,
                                             << >>,
                                             <<MemberDescriptor(NameAny, << >>, r.val, << >>)>>))
    IN  IF descriptor.cli_type = << >> THEN XFail(S, "AssertionError", << >>)
        ELSE Described(type_descriptor_from_cli_type(S.cli, descriptor.cli_type[1]))

(* handler.push_value(value), called by the handler `by`; the call is       *)
(* added to the history                                                     *)
RECURSIVE push_value(_, _, _, _)
push_value(S, h, value, by) ==
    LET o == S.handlers[h]
        L == [S EXCEPT !.pushed = Append(@, [to |-> h, value |-> value, by |-> by])]
        member_name == IF o.member[1].member_name # << >> /\ o.member[1].member_name # <<<< >>>>
                       THEN o.member[1].member_name[1] ELSE o.member[1].name
        Stored(r) ==
            IF ~r.ok THEN r
            ELSE XRes([r.S EXCEPT !.handlers[h].member_value_dict = Put(@, r.val, value)], NoneV)
    IN  CASE o.cls = "SentinelHandler" -> XRes([L EXCEPT !.handlers[h].result = value], NoneV)
          [] o.cls = "CompositeObjectHandler" ->
                IF o.member = << >> THEN XRes(L, NoneV)
                ELSE IF o.descriptor[1].cli_type = << >> THEN XFail(L, "AssertionError", << >>)
                ELSE Stored(OnCli(L, MemberOrdinal(L.cli, o.descriptor[1].cli_type[1],
                                                   member_name)))
          [] o.cls \in {"ArrayObjectHandler", "DictionaryObjectHandler"} ->
                XRes([L EXCEPT !.handlers[h].items = Append(@, value)], NoneV)
          [] OTHER -> IF o.outer # 0 THEN push_value(L, o.outer, value, h) ELSE XRes(L, NoneV)

(* BaseHandler.push_value, as super().push_value(value) calls it *)
BasePushValue(S, h, value) ==
    IF S.handlers[h].outer # 0 THEN push_value(S, S.handlers[h].outer, value, h)
    ELSE XRes(S, NoneV)

(* an endElementNS that leaves the parser's content handler as it is *)
BaseEndElementNS_Stay(r, h) == r

(* BaseHandler.endElementNS: self.ctx.parser.setContentHandler(self.outer) *)
BaseEndElementNS(r, h) ==
    IF ~r.ok THEN r ELSE XRes([r.S EXCEPT !.handler = r.S.handlers[h].outer], NoneV)

(* the values of a dict keyed by ordinals, in the order of the keys *)
SortedByOrdinal(d) ==
    [k \in 1..Cardinality(DOMAIN d) |->
        d[CHOOSE x \in DOMAIN d : Cardinality({y \in DOMAIN d : y < x}) = k - 1]]

(* the endElementNS of the class of handler h *)
endElementNS(S, h) ==
    LET o == S.handlers[h]
        Pushed(r) == IF ~r.ok THEN r ELSE BaseEndElementNS(BasePushValue(r.S, h, CLIRef(r.val)), h)
        BasicValue(r) ==
            IF ~r.ok THEN r ELSE BaseEndElementNS(push_value(r.S, o.outer, CLIRef(r.val), h), h)
        Checked(cls) ==
            cls \in {"CompositeObjectHandler", "ArrayObjectHandler", "SingletonObjectHandler"}
    IN  CASE o.cls = "SentinelHandler" -> XRes(S, NoneV)
          [] o.cls = "CompositeObjectHandler" ->
                IF o.descriptor[1].cli_type = << >> THEN XFail(S, "AssertionError", << >>)
                ELSE Pushed(OnCli(S, ti_instantiate(S.cli, o.descriptor[1].cli_type[1], NoneV,
                                                    <<SortedByOrdinal(o.member_value_dict)>>,
                                                    << >>)))
          [] o.cls \in {"ArrayObjectHandler", "DictionaryObjectHandler"} ->
                IF o.descriptor[1].cli_type = << >> THEN XFail(S, "AssertionError", << >>)
                ELSE Pushed(OnCli(S, ti_instantiate(S.cli, o.descriptor[1].cli_type[1],
                                                    ListV(o.items), << >>, << >>)))
          [] o.cls = "BasicObjectHandler" ->
                IF o.outer = 0 THEN XFail(S, "AssertionError", << >>)
                ELSE IF Checked(S.handlers[o.outer].cls)
                        /\ S.handlers[o.outer].descriptor[1].cli_type = << >>
                THEN XFail(S, "AssertionError", << >>)
                ELSE IF o.chunks = << >>
                THEN BaseEndElementNS(push_value(S, o.outer, NoneV, h), h)
                ELSE BasicValue(OnCli(S, xs_deserialize(S.cli, o.type, Concat(o.chunks))))
          [] o.cls = "NilObjectHandler" ->
                IF o.outer = 0 THEN XFail(S, "AssertionError", << >>)
                ELSE IF ~Checked(S.handlers[o.outer].cls)
                THEN XFail(S, "AssertionError", <<o.outer>>)
                ELSE IF S.handlers[o.outer].descriptor[1].cli_type = << >>
                THEN XFail(S, "AssertionError", << >>)
                ELSE BasicValue(OnCli(S, NewValue(S.cli,
                         CLIBasicValue(S.handlers[o.outer].descriptor[1].cli_type[1], NoneV))))
          [] OTHER -> BaseEndElementNS(XRes(S, NoneV), h)

(* the characters of the class of handler h *)
characters(S, h, content) ==
    CASE S.handlers[h].cls = "BasicObjectHandler" ->
            XRes([S EXCEPT !.handlers[h].chunks = Append(@, content)], NoneV)
      [] S.handlers[h].cls = "NilObjectHandler" ->
            XFail(S, "InvalidDataContractPayload", <<"a nil object cannot have a content">>)
      [] OTHER -> XRes(S, NoneV)

(* BaseHandler.startPrefixMapping; the prefix is << >> for None *)
startPrefixMapping(S, h, prefix, uri) ==
    XRes([S EXCEPT !.handlers[h].xmlns = Put(@, prefix, uri)], NoneV)

(* handler._namespace: MemberHandler's property, else BaseHandler's *)
RECURSIVE namespace_(_, _)
namespace_(S, h) ==
    IF S.handlers[h].cls = "MemberHandler" /\ S.handlers[h].descriptor[1].namespace # << >>
    THEN S.handlers[h].descriptor[1].namespace
    ELSE IF S.handlers[h].outer = 0 THEN << >>
    ELSE namespace_(S, S.handlers[h].outer)

(* attrs.get((uri, local)) *)
AttrsGet(attrs, uri, local) ==
    IF \E i \in 1..Len(attrs) : attrs[i].name = <<uri, local>>
    THEN <<attrs[CHOOSE i \in 1..Len(attrs) : attrs[i].name = <<uri, local>>].value>>
    ELSE << >>

(* self.ctx.parser.setContentHandler(<the handler just made>) *)
SetContentHandler(r) == IF ~r.ok THEN r ELSE XRes([r.S EXCEPT !.handler = r.val], NoneV)

(* MemberHandler.startElementNS; name is [uri, local] with uri << >> for    *)
(* None                                                                     *)
MemberStartElementNS(S, h, name, attrs) ==
    LET o == S.handlers[h]
        descriptor == o.descriptor[1]
        type_descriptor == descriptor.type_descriptor
        xsin == AttrsGet(attrs, XMLSCHEMA_INSTANCE_NAMESPACE, "nil")
        xsit == AttrsGet(attrs, XMLSCHEMA_INSTANCE_NAMESPACE, "type")
        Nil(r) == IF ~r.ok THEN r ELSE SetContentHandler(NilObjectHandler(r.S, o.outer))
        Typed(namespace_prefix, type_) ==
            IF <<namespace_prefix>> \notin DOMAIN o.xmlns
            THEN XFail(S, "KeyError", <<namespace_prefix>>)
            ELSE IF o.xmlns[<<namespace_prefix>>] # XMLSCHEMA_NAMESPACE
            THEN XFail(S, "InvalidDataContractPayload", <<"unexpected namespace">>)
            ELSE SetContentHandler(BasicObjectHandler(S, o.outer, type_))
        Basic(r) ==
            IF ~r.ok THEN XFail(S, r.err.kind, r.err.args)
            ELSE SetContentHandler(BasicObjectHandler(S, o.outer, r.val))
    IN  IF xsin # << >> THEN Nil(OnCli(S, xs_deserialize(S.cli, XsBool, xsin[1])))
        ELSE IF xsit # << >> THEN Typed(partition(xsit[1], 58)[1], partition(xsit[1], 58)[3])
        ELSE CASE type_descriptor.kind = "Composite" ->
                    IF namespace_(S, h) # << >> /\ name.uri # namespace_(S, h)
                    THEN XFail(S, "InvalidDataContractPayload", <<"namespace">>)
                    ELSE IF descriptor.name # NameAny /\ name.local # descriptor.name
                    THEN XFail(S, "InvalidDataContractPayload", <<"tag name">>)
                    ELSE SetContentHandler(CompositeObjectHandler(S, o.outer, type_descriptor))
               [] type_descriptor.kind = "Array" ->
                    SetContentHandler(ArrayObjectHandler(S, o.outer, type_descriptor))
               [] type_descriptor.kind = "Dictionary" ->
                    SetContentHandler(DictionaryObjectHandler(S, o.outer, type_descriptor))
               [] type_descriptor.kind = "Singleton" ->
                    SetContentHandler(SingletonObjectHandler(S, o.outer, type_descriptor))
               [] type_descriptor.kind = "Basic" ->
                    IF type_descriptor.cli_type = << >> THEN XFail(S, "AssertionError", << >>)
                    ELSE Basic(xs_type_from_cli_type(S.cli, type_descriptor.cli_type[1]))
               [] OTHER -> XFail(S, "NotImplementedError", << >>)

(* the startElementNS of the class of handler h; a class that defines none  *)
(* inherits xml.sax.handler.ContentHandler's, which does nothing            *)
startElementNS(S, h, name, attrs) ==
    LET o == S.handlers[h]
        Started(r) ==
            IF ~r.ok THEN r ELSE MemberStartElementNS(r.S, r.S.handler, name, attrs)
        Handled(S1, member) ==
            Started(SetContentHandler(MemberHandler(
                [S1 EXCEPT !.handlers[h].member = IF o.cls = "CompositeObjectHandler"
                                                   THEN <<member>> ELSE @],
                h, member)))
        member_name(member) ==
            IF member.member_name # << >> /\ member.member_name # <<<< >>>>
            THEN member.member_name[1] ELSE member.name
        cli_type == o.descriptor[1].cli_type[1]
        Typed(member, r) ==
            IF ~r.ok THEN r
            ELSE Handled(r.S, [member EXCEPT !.type_descriptor.cli_type = <<r.val.type>>])
        Found(r) ==
            IF ~r.ok THEN XFail(S, r.err.kind, r.err.args)
            ELSE IF r.val.type_descriptor.cli_type # << >> THEN Handled(S, r.val)
            ELSE Typed(r.val, OnCli(S, InstanceMember(S.cli, cli_type, member_name(r.val))))
    IN  CASE o.cls = "MemberHandler" -> MemberStartElementNS(S, h, name, attrs)
          [] o.cls = "CompositeObjectHandler" ->
                IF o.descriptor[1].cli_type = << >> THEN XFail(S, "AssertionError", << >>)
                ELSE Found(name_to_member_map(o.descriptor[1], name.local))
          [] o.cls \in {"ArrayObjectHandler", "DictionaryObjectHandler",
                        "SingletonObjectHandler"} -> Handled(S, o.anonymous_member[1])
          [] OTHER -> XRes(S, NoneV)

----------------------------------------------------------------------------
(* Decoding a document: Deserializer.__call__ sets the handlers up and the  *)
(* parser delivers the SAX events of the document one by one to its current *)
(* content handler (endPrefixMapping, which no handler defines, is not      *)
(* delivered).                                                              *)

XState == [handlers |-> handlers, handler |-> handler, cli |-> cli, pushed |-> pushed]

(* the state after an operation on the decode state *)
XmlStep(r, next_pc) ==
    /\ handlers' = r.S.handlers
    /\ handler' = r.S.handler
    /\ cli' = r.S.cli
    /\ pushed' = r.S.pushed
    /\ err' = r.err
    /\ pc' = IF r.ok THEN next_pc ELSE "xml_failed"

(* Deserializer.__call__ up to parser.parse: the sentinel is handler 1 and  *)
(* the root MemberHandler handler 2                                         *)
Deserialize ==
    /\ pc = "xml_call"
    /\ LET Root(r) == SetContentHandler(MemberHandler(r.S, r.val, arg.descriptor))
       IN  XmlStep(Root(SentinelHandler(XState)), "xml_parse")
    /\ events' = arg.events
    /\ opened' = << >>
    /\ UNCHANGED <<f, pos, arg, ret, decVars, brVars>>

(* the parser calls a method of its content handler, which is None after    *)
(* the handler whose outer is None has ended                                *)
Deliver(kind, r) ==
    /\ pc = "xml_parse"
    /\ events # << >>
    /\ Head(events).kind = kind
    /\ XmlStep(IF handler = 0 THEN XFail(XState, "AttributeError", <<kind>>) ELSE r, "xml_parse")
    /\ events' = Tail(events)
    /\ opened' = CASE kind = "startElementNS" ->
                       Append(opened, [handler |-> handler, pushes |-> Len(pushed)])
                  [] kind = "endElementNS" -> SubSeq(opened, 1, Len(opened) - 1)
                  [] OTHER -> opened
    /\ UNCHANGED <<f, pos, arg, ret, decVars, brVars>>

StartPrefixMapping ==
    Deliver("startPrefixMapping",
            startPrefixMapping(XState, handler, Head(events).prefix, Head(events).uri))

StartElementNS ==
    Deliver("startElementNS",
            startElementNS(XState, handler, Head(events).name, Head(events).attrs))

Characters ==
    Deliver("characters", characters(XState, handler, Head(events).content))

EndElementNS ==
    Deliver("endElementNS", endElementNS(XState, handler))

(* Deserializer.__call__: return sentinel.result *)
DeserializeReturn ==
    /\ pc = "xml_parse"
    /\ events = << >>
    /\ pc' = "xml_returned"
    /\ ret' = handlers[1].result
    /\ UNCHANGED <<f, pos, err, arg, decVars, brVars, xmlVars>>

(* a document: an element with the prefixes it declares (<< >> for xmlns=), *)
(* its attributes and children, or text                                     *)
Element(prefixes, uri, local, attrs, children) ==
    [node |-> "element", prefixes |-> prefixes, name |-> [uri |-> uri, local |-> local],
     attrs |-> attrs, children |-> children]
Text(content) == [node |-> "text", content |-> content]

(* the events the parser delivers for a node *)
RECURSIVE SaxEvents(_)
SaxEvents(n) ==
    IF n.node = "text" THEN <<[kind |-> "characters", content |-> n.content]>>
    ELSE [i \in 1..Len(n.prefixes) |->
             [kind |-> "startPrefixMapping", prefix |-> n.prefixes[i][1], uri |-> n.prefixes[i][2]]]
         \o <<[kind |-> "startElementNS", name |-> n.name, attrs |-> n.attrs]>>
         \o Concat([i \in 1..Len(n.children) |-> SaxEvents(n.children[i])])
         \o <<[kind |-> "endElementNS", name |-> n.name]>>

(* the caller's types: Builtins(ctx), the type N.Foo without members, the   *)
(* instances List<Int32>, Dictionary<String, Int32>, and for each kind of   *)
(* member a type N.X with the one member "m"                                *)
NsN == <<78>>
ElX == <<88>>
ElM == <<109>>
ElItem == <<105>>
ElQ == <<113>>
TextTwelve == <<49, 50>>
UriN == "http://schemas.datacontract.org/2004/07/N"
MemberKinds == <<"Basic", "Composite", "Array", "Dictionary", "Singleton">>
Kind(k) == CHOOSE i \in 1..Len(MemberKinds) : MemberKinds[i] = k

NewType(C, name, members) ==
    LET Inst(r) == instantiate(r.B, r.val, Collection(<< >>))
    IN  Inst(CLIType(C, name, NsN, << >>, << >>, << >>, FALSE, members, << >>, FALSE))
NewGeneric(C, g, parameters) ==
    instantiate(C, Global(g), Collection([i \in 1..Len(parameters) |-> <<TIRef(parameters[i])>>]))
NewX(C, type) == NewType(C, ElX, <<CLITypeMember(ElM, TIRef(type))>>)

XmlBuiltins ==
    NewBuiltins([th |-> [i \in 1..Len(ModuleTypes) |-> ModuleTypes[i].type],
                 ih |-> << >>, vh |-> << >>])
XmlFoo == NewType(XmlBuiltins.B, <<70, 111, 111>>, << >>)
XmlList ==
    NewGeneric(XmlFoo.B, "SYSTEM_COLLECTIONS_GENERIC_LIST", <<Builtin("SYSTEM_INT32")>>)
XmlDictionary ==
    NewGeneric(XmlList.B, "SYSTEM_COLLECTIONS_GENERIC_DICTIONARY",
               <<Builtin("SYSTEM_STRING"), Builtin("SYSTEM_INT32")>>)
XmlXBasic == NewX(XmlDictionary.B, Builtin("SYSTEM_INT32"))
XmlXComposite == NewX(XmlXBasic.B, XmlFoo.val)
XmlXArray == NewX(XmlXComposite.B, XmlList.val)
XmlXDictionary == NewX(XmlXArray.B, XmlDictionary.val)
XmlXSingleton == NewX(XmlXDictionary.B, Builtin("SYSTEM_INT64"))

(* the types' state, and per kind the N.X and the type of its member m *)
XmlTypes ==
    [cli |-> XmlXSingleton.B,
     x |-> <<XmlXBasic.val, XmlXComposite.val, XmlXArray.val, XmlXDictionary.val,
             XmlXSingleton.val>>,
     m |-> <<Builtin("SYSTEM_INT32"), XmlFoo.val, XmlList.val, XmlDictionary.val,
             Builtin("SYSTEM_INT64")>>]

(* a type descriptor of kind k whose cli_type is left to be inferred, or is *)
(* the type of member m of the N.X of that kind                             *)
Descriptor(k, cli_type) ==
    CASE k = "Basic" -> BasicTypeDescriptor(cli_type)
      [] k = "Composite" -> CompositeTypeDescriptor(cli_type, << >>)
      [] k = "Array" -> ArrayTypeDescriptor(cli_type, << >>, << >>)
      [] k = "Dictionary" -> DictionaryTypeDescriptor(cli_type, << >>, << >>)
      [] k = "Singleton" -> SingletonTypeDescriptor(cli_type)

(* the descriptor of a root <X> with the member <m> of kind k, and of a     *)
(* root <m> of kind k, over the types T                                     *)
RootX(T, k) ==
    MemberDescriptor(ElX, <<UriN>>,
        CompositeTypeDescriptor(<<T.x[Kind(k)]>>,
                                <<MemberDescriptor(ElM, << >>, Descriptor(k, << >>), << >>)>>),
        << >>)
RootM(T, k) == MemberDescriptor(ElM, <<UriN>>, Descriptor(k, <<T.m[Kind(k)]>>), << >>)

(* attributes i:nil and i:type="b:<type>" *)
NilAttr(value) == [name |-> <<XMLSCHEMA_INSTANCE_NAMESPACE, "nil">>, value |-> value]
TypeAttr(type_) ==
    [name |-> <<XMLSCHEMA_INSTANCE_NAMESPACE, "type">>, value |-> <<98, 58>> \o type_]
PrefixB == <<<<<<98>>>>, XMLSCHEMA_NAMESPACE>>

(* elements of namespace N: <X>, <m>, an item <i>, a nested <q> *)
X(children) == Element(<< >>, <<UriN>>, ElX, << >>, children)
M(attrs, children) == Element(<< >>, <<UriN>>, ElM, attrs, children)
Item(attrs, children) == Element(<< >>, <<UriN>>, ElItem, attrs, children)
Q(children) == Element(<< >>, <<UriN>>, ElQ, << >>, children)
Pair(key, value) ==
    Item(<< >>, <<Element(<< >>, <<UriN>>, MemberKey, key.attrs, key.children),
                  Element(<< >>, <<UriN>>, MemberValue, value.attrs, value.children)>>)
Nil == [attrs |-> <<NilAttr(TextTrue)>>, children |-> << >>]
Of(text) == [attrs |-> << >>, children |-> <<Text(text)>>]

(* the content of a well-formed <m> of kind k *)
Content(k) ==
    CASE k = "Basic" -> <<Text(TextTwelve)>>
      [] k = "Composite" -> << >>
      [] k = "Array" -> <<Item(<< >>, <<Text(TextOne)>>), Item(<< >>, <<Text(TextTwelve)>>)>>
      [] k = "Dictionary" -> <<Pair(Of(TextK), Of(TextOne))>>
      [] k = "Singleton" -> <<Item(<< >>, <<Text(TextOne)>>)>>

(* an <m> with the attributes attrs, declaring the prefix b when it has an  *)
(* i:type                                                                   *)
TypedM(type_, children) ==
    Element(<<PrefixB>>, <<UriN>>, ElM, <<TypeAttr(type_)>>, children)
NilM(value, children) == M(<<NilAttr(value)>>, children)

(* a call of the Deserializer: the root's descriptor and the document *)
XmlCall(descriptor, document) == [descriptor |-> descriptor, events |-> SaxEvents(document)]

(* per kind of <m>: <m> as a member of <X> and as the root, well formed and *)
(* nil                                                                      *)
CallsPerKind(T) ==
    UNION {{XmlCall(RootX(T, MemberKinds[i]), X(<<M(<< >>, Content(MemberKinds[i]))>>)),
            XmlCall(RootX(T, MemberKinds[i]), X(<<NilM(TextTrue, << >>)>>)),
            XmlCall(RootM(T, MemberKinds[i]), M(<< >>, Content(MemberKinds[i]))),
            XmlCall(RootM(T, MemberKinds[i]), NilM(TextTrue, << >>))} :
           i \in 1..Len(MemberKinds)}

(* nil items of an array, a dictionary, a singleton; a nil Key or Value *)
CallsNilItems(T) ==
    {XmlCall(RootX(T, "Array"), X(<<M(<< >>, <<Item(Nil.attrs, << >>),
                                            Item(<< >>, <<Text(TextOne)>>)>>)>>)),
     XmlCall(RootX(T, "Dictionary"), X(<<M(<< >>, <<Item(Nil.attrs, << >>)>>)>>)),
     XmlCall(RootX(T, "Dictionary"), X(<<M(<< >>, <<Pair(Nil, Of(TextOne))>>)>>)),
     XmlCall(RootX(T, "Dictionary"), X(<<M(<< >>, <<Pair(Of(TextK), Nil)>>)>>)),
     XmlCall(RootX(T, "Singleton"), X(<<M(<< >>, <<Item(Nil.attrs, << >>)>>)>>)),
     XmlCall(RootM(T, "Array"), M(<< >>, <<Item(Nil.attrs, << >>)>>))}

(* i:nil that is not "true", and a nil element with content *)
CallsNilValues(T) ==
    {XmlCall(RootX(T, "Basic"), X(<<NilM(TextFalse, << >>)>>)),
     XmlCall(RootX(T, "Basic"), X(<<NilM(TextFalse, <<Text(TextTwelve)>>)>>)),
     XmlCall(RootX(T, "Basic"), X(<<NilM(TextOne, << >>)>>)),
     XmlCall(RootX(T, "Basic"), X(<<NilM(TextK, << >>)>>)),
     XmlCall(RootX(T, "Basic"), X(<<NilM(TextTrue, <<Text(TextTwelve)>>)>>)),
     XmlCall(RootX(T, "Composite"), X(<<NilM(TextTrue, <<Q(<< >>)>>)>>))}

(* elements nested in a basic value *)
CallsNested(T) ==
    {XmlCall(RootX(T, "Basic"), X(<<M(<< >>, <<Text(TextOne), Q(<< >>), Text(TextTwelve)>>)>>)),
     XmlCall(RootX(T, "Basic"), X(<<M(<< >>, <<Q(<<Text(TextOne)>>)>>)>>)),
     XmlCall(RootX(T, "Basic"), X(<<M(<< >>, <<Q(<<Q(<< >>)>>)>>)>>)),
     XmlCall(RootM(T, "Basic"), M(<< >>, <<Text(TextOne), Q(<< >>)>>)),
     XmlCall(RootX(T, "Array"), X(<<M(<< >>, <<Item(<< >>, <<Text(TextOne), Q(<< >>)>>)>>)>>)),
     XmlCall(RootX(T, "Basic"), X(<<TypedM(XsString, <<Text(TextK), Q(<< >>)>>)>>))}

(* i:type, an element the descriptor does not declare, an empty basic      *)
(* value, two members                                                       *)
CallsOther(T) ==
    {XmlCall(RootX(T, "Basic"), X(<<TypedM(XsString, <<Text(TextK)>>)>>)),
     XmlCall(RootX(T, "Composite"), X(<<TypedM(XsLong, <<Text(TextTwelve)>>)>>)),
     XmlCall(RootX(T, "Basic"), X(<<TypedM(XsBool, <<Text(TextTrue)>>)>>)),
     XmlCall(RootX(T, "Basic"), X(<<TypedM(XsBool, <<Text(TextK)>>)>>)),
     XmlCall(RootX(T, "Basic"), X(<<TypedM(TextK, <<Text(TextK)>>)>>)),
     XmlCall(RootX(T, "Basic"),
             X(<<Element(<< >>, <<UriN>>, ElM, <<TypeAttr(XsString)>>, <<Text(TextK)>>)>>)),
     XmlCall(RootX(T, "Basic"), X(<<Q(<< >>)>>)),
     XmlCall(RootX(T, "Basic"), X(<<M(<< >>, << >>)>>)),
     XmlCall(RootX(T, "Basic"), X(<<M(<< >>, <<Text(TextOne)>>), M(<< >>, <<Text(TextTwelve)>>)>>)),
     XmlCall(RootX(T, "Basic"), M(<< >>, <<Text(TextOne)>>)),
     XmlCall(RootX(T, "Basic"), Element(<< >>, << >>, ElX, << >>, << >>))}

XmlCalls(T) ==
    CallsPerKind(T) \cup CallsNilItems(T) \cup CallsNilValues(T) \cup CallsNested(T) \cup CallsOther(T)

(* a Deserializer over the caller's types, about to be called *)
InitXml ==
    /\ f = File(<< >>, 0)
    /\ pos = 0
    /\ pc = "xml_call"
    /\ err = NoErr
    /\ arg \in XmlCalls(XmlTypes)
    /\ ret = NoRet
    /\ DecodeIdle
    /\ BridgeIdle
    /\ events = << >>
    /\ handlers = << >>
    /\ handler = 0
    /\ cli = XmlTypes.cli
    /\ pushed = << >>
    /\ opened = << >>

NextXml ==
    \/ Deserialize
    \/ StartPrefixMapping
    \/ StartElementNS
    \/ Characters
    \/ EndElementNS
    \/ DeserializeReturn

SpecXml == InitXml /\ [][NextXml]_vars

(* C9: an element with xsi:nil="true" of any descriptor kind, under any     *)
(* enclosing handler (the sentinel of the root included), pushes            *)
(* BasicValue(T, None) where T is the CLI type of that member itself, not   *)
(* the type of the enclosing container: every value a NilObjectHandler has  *)
(* pushed is such a value (the MemberHandler that made the nil handler is   *)
(* the handler created just before it), and no nil element ends in an       *)
(* AssertionError.                                                          *)
C9_NilPushesMemberType ==
    /\ \A i \in DOMAIN pushed :
          handlers[pushed[i].by].cls = "NilObjectHandler" =>
              /\ pushed[i].value # NoneV
              /\ handlers[pushed[i].by - 1].descriptor[1].type_descriptor.cli_type # << >>
              /\ cli.vh[pushed[i].value.addr] =
                    CLIBasicValue(handlers[pushed[i].by - 1].descriptor[1]
                                      .type_descriptor.cli_type[1], NoneV)
    /\ ~(/\ pc = "xml_failed"
         /\ handler # 0
         /\ handlers[handler].cls = "NilObjectHandler"
         /\ err.kind = "AssertionError")

(* C10: while a BasicObjectHandler is the current handler, any nested       *)
(* start-element fails with InvalidDataContractPayload, so the basic value  *)
(* is never completed from the end event of a nested element.               *)
C10_BasicRejectsNestedElement ==
    [][(/\ pc = "xml_parse"
        /\ handler # 0
        /\ handlers[handler].cls = "BasicObjectHandler"
        /\ events # << >>
        /\ Head(events).kind = "startElementNS")
       => (pc' = "xml_failed" /\ err'.kind = "InvalidDataContractPayload")]_vars

(* the payloads that are well formed and match their descriptor: per kind,  *)
(* <m> with its content or nil as the member of <X>, and <m> with its       *)
(* content as the root                                                      *)
WellFormedCalls(T) ==
    UNION {{XmlCall(RootX(T, MemberKinds[i]), X(<<M(<< >>, Content(MemberKinds[i]))>>)),
            XmlCall(RootX(T, MemberKinds[i]), X(<<NilM(TextTrue, << >>)>>)),
            XmlCall(RootM(T, MemberKinds[i]), M(<< >>, Content(MemberKinds[i])))} :
           i \in 1..Len(MemberKinds)}
WellFormed == WellFormedCalls(XmlTypes)

(* the end event of an element of a well-formed payload is delivered and    *)
(* handled                                                                  *)
ElementEnds ==
    /\ arg \in WellFormed
    /\ pc = "xml_parse"
    /\ events # << >>
    /\ Head(events).kind = "endElementNS"
    /\ pc' = "xml_parse"

(* the push_value calls on handler h after the first n calls of history *)
PushesTo(history, h, n) == {i \in (n + 1)..Len(history) : history[i].to = h}

(* the handler that was current before the start event of the element that  *)
(* ends, and the calls of push_value made before it                         *)
Before == opened[Len(opened)]

(* the element has left the handler h current and has pushed exactly one    *)
(* value to it                                                              *)
CompletedInto(h) ==
    /\ handler' = h
    /\ Cardinality(PushesTo(pushed', h, Before.pushes)) = 1

(* the value the element has pushed to the handler h *)
ValuePushed(h) == pushed'[CHOOSE i \in PushesTo(pushed', h, Before.pushes) : TRUE].value

----------------------------------------------------------------------------
(* The XSD deserializers on their own: one call of                          *)
(* XSDataSerializer.deserialize(type_, value) on the serializer of a        *)
(* Builtins.                                                                *)

(* every spelling of the word w in upper and lower case *)
Spellings(w) ==
    {[i \in 1..Len(w) |-> IF i \in U THEN w[i] - 32 ELSE w[i]] : U \in SUBSET (1..Len(w))}
TextZero == <<48>>

(* texts handed to the bool deserializer *)
BoolTexts ==
    Spellings(TextTrue) \cup Spellings(TextFalse) \cup
    {<<49>>,
     <<48>>,
     <<>>,
     <<32, 116, 114, 117, 101>>,
     <<121, 101, 115>>,
     <<110, 111>>,
     <<48, 49>>,
     <<48, 48>>,
     <<116>>,
     <<102>>,
     <<111, 110>>,
     <<50>>,
     <<116, 114, 117, 101, 32>>,
     <<45, 49>>}

(* texts handed to the long deserializer: the values around -2^31, 0, 2^31, *)
(* 2^32 and 2^63, and texts that are not integers                           *)
TextInt32Min == <<45, 50, 49, 52, 55, 52, 56, 51, 54, 52, 56>>
TextBelowInt32Min == <<45, 50, 49, 52, 55, 52, 56, 51, 54, 52, 57>>
TextInt32Max == <<50, 49, 52, 55, 52, 56, 51, 54, 52, 55>>
TextAboveInt32Max == <<50, 49, 52, 55, 52, 56, 51, 54, 52, 56>>
LongTexts ==
    {<<45, 50, 49, 52, 55, 52, 56, 51, 54, 52, 57>>,
     <<45, 50, 49, 52, 55, 52, 56, 51, 54, 52, 56>>,
     <<45, 50, 49, 52, 55, 52, 56, 51, 54, 52, 55>>,
     <<45, 49>>,
     <<48>>,
     <<49>>,
     <<50, 49, 52, 55, 52, 56, 51, 54, 52, 55>>,
     <<50, 49, 52, 55, 52, 56, 51, 54, 52, 56>>,
     <<52, 50, 57, 52, 57, 54, 55, 50, 57, 53>>,
     <<52, 50, 57, 52, 57, 54, 55, 50, 57, 54>>,
     <<57, 50, 50, 51, 51, 55, 50, 48, 51, 54, 56, 53, 52, 55, 55, 53, 56, 48, 55>>,
     <<57, 50, 50, 51, 51, 55, 50, 48, 51, 54, 56, 53, 52, 55, 55, 53, 56, 48, 56>>,
     <<45, 57, 50, 50, 51, 51, 55, 50, 48, 51, 54, 56, 53, 52, 55, 55, 53, 56, 48, 56>>,
     <<45, 57, 50, 50, 51, 51, 55, 50, 48, 51, 54, 56, 53, 52, 55, 55, 53, 56, 48, 57>>,
     <<43, 53>>,
     <<32, 49, 50, 32>>,
     <<49, 95, 48>>,
     <<48, 48, 55>>,
     <<45, 48>>,
     <<>>,
     <<107>>,
     <<45>>,
     <<49, 95, 95, 48>>,
     <<95, 49>>,
     <<49, 32, 50>>,
     <<48, 120, 49, 48>>,
     <<49, 50, 46, 48>>}

XsdArgs ==
    {[type |-> XsBool, value |-> t] : t \in BoolTexts} \cup
    {[type |-> XsLong, value |-> t] : t \in LongTexts} \cup
    {[type |-> XsString, value |-> TextK], [type |-> TextK, value |-> TextK]}

InitXsd ==
    /\ f = File(<< >>, 0)
    /\ pos = 0
    /\ pc = "xsd_call"
    /\ err = NoErr
    /\ arg \in XsdArgs
    /\ ret = NoRet
    /\ DecodeIdle
    /\ BridgeIdle
    /\ events = << >>
    /\ handlers = << >>
    /\ handler = 0
    /\ cli = XmlBuiltins.B
    /\ pushed = << >>
    /\ opened = << >>

(* xs_deserializer.deserialize(type_, value) *)
XsDeserialize ==
    /\ pc = "xsd_call"
    /\ \E r \in {xs_deserialize(cli, arg.type, arg.value)} :
          /\ cli' = r.B
          /\ err' = r.err
          /\ ret' = IF r.ok THEN CLIRef(r.val) ELSE NoRet
          /\ pc' = IF r.ok THEN "xsd_returned" ELSE "xsd_failed"
    /\ UNCHANGED <<f, pos, arg, decVars, brVars, events, handlers, handler, pushed, opened>>

NextXsd == XsDeserialize

SpecXsd == InitXsd /\ [][NextXsd]_vars

(* C11: the bool deserializer maps, case-insensitively, exactly "true" and  *)
(* "1" to True and exactly "false" and "0" to False, and fails on every     *)
(* other input.                                                             *)
C11_BoolLexicalForms ==
    (pc \in {"xsd_returned", "xsd_failed"} /\ arg.type = XsBool) =>
        IF Lower(arg.value) \in {TextTrue, TextOne}
        THEN pc = "xsd_returned" /\ cli.vh[ret.addr].value = BoolV(TRUE)
        ELSE IF Lower(arg.value) \in {TextFalse, TextZero}
        THEN pc = "xsd_returned" /\ cli.vh[ret.addr].value = BoolV(FALSE)
        ELSE pc = "xsd_failed"

(* the parsed integer of sign neg and magnitude mag lies in -2^31..2^31 - 1 *)
InInt32Range(v) ==
    IF v.neg THEN MagLE(v.mag, <<2, 1, 4, 7, 4, 8, 3, 6, 4, 8>>)
    ELSE MagLE(v.mag, <<2, 1, 4, 7, 4, 8, 3, 6, 4, 7>>)

(* C12: the long deserializer returns the parsed integer v typed Int32 if   *)
(* and only if -2^31 <= v <= 2^31 - 1, and typed Int64 otherwise.           *)
C12_LongInt32Range ==
    (pc = "xsd_returned" /\ arg.type = XsLong) =>
        /\ cli.vh[ret.addr].value =
              PyInt(PyIntOfStr(arg.value).val.neg, PyIntOfStr(arg.value).val.mag)
        /\ cli.vh[ret.addr].type_instance =
              IF InInt32Range(PyIntOfStr(arg.value).val) THEN Builtin("SYSTEM_INT32")
              ELSE Builtin("SYSTEM_INT64")

(* the value 2^31 has been deserialized, as an Int64 *)
C12_Witness ==
    /\ pc = "xsd_returned"
    /\ arg = [type |-> XsLong, value |-> TextAboveInt32Max]
    /\ cli.vh[ret.addr].type_instance = Builtin("SYSTEM_INT64")

----------------------------------------------------------------------------
(* The class-name parser on its own: one call of parse_class_name(value).   *)

(* the generic class names written out: a tree of a name, its declared      *)
(* arity and its parameters, with each parameter either bare or in brackets *)
(* of its own                                                               *)
NameTree(name, arity, parameters) == [name |-> name, arity |-> arity, parameters |-> parameters]
Leaf == NameTree(<<65>>, 0, << >>)
Generic(parameters) ==
    NameTree(IF Len(parameters) = 1 THEN <<66>> ELSE <<67>>, Len(parameters), parameters)

RECURSIVE Join(_)
Join(texts) ==
    IF texts = << >> THEN << >>
    ELSE IF Len(texts) = 1 THEN texts[1]
    ELSE texts[1] \o <<44>> \o Join(Tail(texts))

RECURSIVE Render(_, _)
Render(t, bracketed) ==
    t.name
    \o (IF t.arity = 0 THEN << >> ELSE <<96>> \o DecimalStr(t.arity))
    \o (IF t.parameters = << >> THEN << >>
        ELSE <<91>>
             \o Join([i \in 1..Len(t.parameters) |->
                         IF bracketed THEN <<91>> \o Render(t.parameters[i], bracketed) \o <<93>>
                         ELSE Render(t.parameters[i], bracketed)])
             \o <<93>>)

(* the trees of depth at most d whose parameter counts are the declared     *)
(* arities                                                                  *)
MaxDepth == 2
RECURSIVE WellFormedTrees(_)
WellFormedTrees(d) ==
    IF d = 0 THEN {Leaf}
    ELSE WellFormedTrees(d - 1)
         \cup {Generic(<<p>>) : p \in WellFormedTrees(d - 1)}
         \cup {Generic(<<p, q>>) : p, q \in WellFormedTrees(d - 1)}

(* a declared arity with fewer or more parameters than it *)
MiscountedTrees ==
    {NameTree(<<66>>, 1, [i \in 1..n |-> Leaf]) : n \in {0, 2, 3}}
    \cup {NameTree(<<67>>, 2, [i \in 1..n |-> Leaf]) : n \in {0, 1, 3}}

(* tokens that follow a complete name *)
TrailingTokens ==
    {<<44, 65>>, <<91, 65, 93>>, <<44, 91, 65, 93>>, <<32, 91, 65, 93>>, <<91, 93>>}

(* every text of at most MaxPieces pieces *)
MaxPieces == 3
PieceTexts == {<<65>>, <<66, 96, 49>>, <<67, 96, 50>>, <<91>>, <<93>>, <<44>>, <<32>>}
PieceNames == {Concat(s) : s \in UNION {[1..k -> PieceTexts] : k \in 0..MaxPieces}}

(* the names with tokens left over after a complete name: at the top level, *)
(* and inside the bracketed list of a name of arity 1                       *)
RedundantAtTop ==
    {Render(t, b) \o tr : t \in WellFormedTrees(1), b \in BOOLEAN, tr \in TrailingTokens}
RedundantInside ==
    {<<66, 96, 49, 91>> \o Render(t, b) \o tr \o <<93>> :
         t \in WellFormedTrees(1), b \in BOOLEAN, tr \in TrailingTokens}

OtherNames ==
    {<<66, 96, 49, 91, 91, 65, 44, 32, 108, 105, 98, 44, 32, 86, 101, 114, 115, 105, 111, 110, 61, 49, 93, 93>>,
     <<66, 96, 120, 91, 65, 93>>,
     <<66, 96, 48, 91, 65, 93>>,
     <<66, 96, 45, 49, 91, 65, 93>>,
     <<66, 96, 49, 32, 91, 65, 93>>,
     <<66, 96, 49, 44, 91, 65, 93>>,
     <<66, 96, 49, 91, 65, 93, 65>>,
     <<66, 96, 49, 91, 65, 93, 32, 65>>,
     <<66, 96, 49, 65>>,
     <<67, 96, 50, 44, 65, 66>>,
     <<67, 96, 50, 44, 65>>,
     <<66, 96, 49, 91, 91, 66, 96, 49, 91, 91, 65, 44, 32, 108, 105, 98, 93, 93, 44, 32, 108, 105, 98, 93, 93>>,
     <<66, 96, 49, 91, 91, 65, 44, 32, 108, 105, 98, 44, 32, 86, 101, 114, 115, 105, 111, 110, 61, 49, 44, 32, 67, 117, 108, 116, 117, 114, 101, 61, 110, 44, 32, 80, 117, 98, 108, 105, 99, 75, 101, 121, 84, 111, 107, 101, 110, 61, 107, 93, 93>>,
     <<78, 46, 65>>,
     <<66, 96, 49, 91, 65>>}

ClassNames ==
    PieceNames
    \cup {Render(t, b) : t \in WellFormedTrees(MaxDepth) \cup MiscountedTrees, b \in BOOLEAN}
    \cup RedundantAtTop
    \cup RedundantInside
    \cup OtherNames

InitClassName ==
    /\ f = File(<< >>, 0)
    /\ pos = 0
    /\ pc = "name_call"
    /\ err = NoErr
    /\ arg \in {[value |-> v] : v \in ClassNames}
    /\ ret = NoRet
    /\ DecodeIdle
    /\ BridgeIdle
    /\ XmlIdle

(* parse_class_name(value) *)
ParseClassName ==
    /\ pc = "name_call"
    /\ \E r \in {parse_class_name(arg.value)} :
          /\ err' = r.err
          /\ ret' = IF r.ok THEN r.val ELSE NoRet
          /\ pc' = IF r.ok THEN "name_returned" ELSE "name_failed"
    /\ UNCHANGED <<f, pos, arg, decVars, brVars, xmlVars>>

NextClassName == ParseClassName

SpecClassName == InitClassName /\ [][NextClassName]_vars

(* the class info a tree stands for *)
RECURSIVE Info(_)
Info(t) ==
    ParametrizedClassInfo(t.name, [i \in 1..Len(t.parameters) |-> Info(t.parameters[i])], << >>)

(* C13: a well-formed class name whose head declares arity N parses to a    *)
(* class info with exactly N parameters, each parameter recursively with as *)
(* many parameters as its own declared arity; a bracketed list with fewer   *)
(* or more than N entries is rejected with InvalidClassName.                *)
C13_ParametersMatchArity ==
    pc \in {"name_returned", "name_failed"} =>
        /\ \A t \in WellFormedTrees(MaxDepth), b \in BOOLEAN :
              arg.value = Render(t, b) => (pc = "name_returned" /\ ret = Info(t))
        /\ \A t \in MiscountedTrees, b \in BOOLEAN :
              (t.parameters # << >> /\ arg.value = Render(t, b)) =>
                  (pc = "name_failed" /\ err.kind = "BridgeError")

(* the brackets of value from index k on, with depth of them open: a ']'    *)
(* with no open '[', or a '[' still open at the end                         *)
RECURSIVE MalformedBrackets(_, _, _)
MalformedBrackets(value, k, depth) ==
    IF k > Len(value) THEN depth > 0
    ELSE IF value[k] = 91 THEN MalformedBrackets(value, k + 1, depth + 1)
    ELSE IF value[k] = 93 THEN depth = 0 \/ MalformedBrackets(value, k + 1, depth - 1)
    ELSE MalformedBrackets(value, k + 1, depth)

(* C14: a class name with a ']' that closes no '[', or with a '[' still     *)
(* open when the input ends, is rejected with InvalidClassName, whatever    *)
(* token precedes the end of the input.                                     *)
C14_MalformedBracketsRejected ==
    (pc \in {"name_returned", "name_failed"} /\ MalformedBrackets(arg.value, 1, 0)) =>
        (pc = "name_failed" /\ err.kind = "BridgeError")

(* C15: a class name with tokens left over once the qualified name and the  *)
(* parameter list of its declared arity have been consumed is rejected with *)
(* InvalidClassName, at the top level and inside a bracketed parameter      *)
(* list, a bracketed list after a name of arity 0 included.                 *)
C15_RedundantTokensRejected ==
    (pc \in {"name_returned", "name_failed"} /\ arg.value \in RedundantAtTop \cup RedundantInside) =>
        (pc = "name_failed" /\ err.kind = "BridgeError")

----------------------------------------------------------------------------
(* The type model on its own: calls of CLIType.partial, CLIType.instantiate *)
(* and CLITypeInstance.instantiate on types made the way the fixtures of    *)
(* cli/tests/test_models.py make theirs.                                    *)

(* the types I and N.S (intrinsic), their instances, the generic types      *)
(* N.D<TKey, TValue>, N.R<TKey, TValue> with TKey resolved at construction  *)
(* and N.Dd<TKey, TValue> with a default for TValue, the type N.M with the  *)
(* members a: I and b: N.S, the type N.E without members, the instances of  *)
(* N.M and N.E, and two basic values                                        *)
MemberA == <<97>>
MemberB == <<98>>
MemberC == <<99>>
FxTypeI == CLIType([th |-> << >>, ih |-> << >>, vh |-> << >>], <<73>>, << >>, << >>, << >>, << >>, TRUE, << >>, << >>, FALSE)
FxInstI == instantiate(FxTypeI.B, FxTypeI.val, Collection(<< >>))
FxTypeS == CLIType(FxInstI.B, <<83>>, NsN, << >>, << >>, << >>, TRUE, << >>, << >>, FALSE)
FxInstS == instantiate(FxTypeS.B, FxTypeS.val, Collection(<< >>))
FxTypeD == CLIType(FxInstS.B, <<68>>, NsN, <<ParamTKey, ParamTValue>>, << >>, << >>, FALSE, << >>, << >>, FALSE)
FxTypeR == CLIType(FxTypeD.B, <<82>>, NsN, <<ParamTKey, ParamTValue>>, << >>, <<<<<<TIRef(FxInstI.val)>>, << >>>>>>, FALSE, << >>, << >>, FALSE)
FxTypeDd == CLIType(FxTypeR.B, <<68, 100>>, NsN, <<ParamTKey, ParamTValue>>, <<<< >>, <<TIRef(FxInstS.val)>>>>, << >>, FALSE, << >>, << >>, FALSE)
FxTypeM == CLIType(FxTypeDd.B, <<77>>, NsN, << >>, << >>, << >>, FALSE, <<CLITypeMember(MemberA, TIRef(FxInstI.val)), CLITypeMember(MemberB, TIRef(FxInstS.val))>>, << >>, FALSE)
FxInstM == instantiate(FxTypeM.B, FxTypeM.val, Collection(<< >>))
FxTypeE == CLIType(FxInstM.B, <<69>>, NsN, << >>, << >>, << >>, FALSE, << >>, << >>, FALSE)
FxInstE == instantiate(FxTypeE.B, FxTypeE.val, Collection(<< >>))
FxValueA == ti_instantiate(FxInstE.B, FxInstI.val, IntV(1), << >>, << >>)
FxValueB == ti_instantiate(FxValueA.B, FxInstS.val, IntV(2), << >>, << >>)

TypeFixture ==
    [cli |-> FxValueB.B,
     I |-> FxTypeI.val, S |-> FxTypeS.val, D |-> FxTypeD.val, R |-> FxTypeR.val,
     Dd |-> FxTypeDd.val, M |-> FxTypeM.val, E |-> FxTypeE.val,
     i |-> FxInstI.val, s |-> FxInstS.val, m |-> FxInstM.val, e |-> FxInstE.val,
     va |-> CLIRef(FxValueA.val), vb |-> CLIRef(FxValueB.val)]

(* a call of a script; self, and the id of a resolvable among the           *)
(* parameters, is an object of the fixture or, when 0, what the call before *)
(* it returned or, when -k, what the k-th call returned; ctx is a context   *)
TypeOp(op, self, c, parameters, value, member_values, member_dict) ==
    [op |-> op, self |-> self, ctx |-> c, parameters |-> parameters, value |-> value,
     member_values |-> member_values, member_dict |-> member_dict]
PartialOp(self, parameters) == TypeOp("partial", self, 0, parameters, NoneV, << >>, << >>)
InstantiateOp(self, parameters) == TypeOp("instantiate", self, 0, parameters, NoneV, << >>, << >>)
TiInstantiateOp(self, value, member_values, member_dict) ==
    TypeOp("ti_instantiate", self, 0, Collection(<< >>), value, member_values, member_dict)
ResolveOp(self, c) == TypeOp("resolve", self, c, Collection(<< >>), NoneV, << >>, << >>)
NewInstanceOp(self, c) == TypeOp("CLITypeInstance", self, c, Collection(<< >>), NoneV, << >>, << >>)
StrOp(self) == TypeOp("str", self, 0, Collection(<< >>), NoneV, << >>, << >>)
MemberTypeOp(self, index) == TypeOp("member_type", self, 0, Collection(<< >>), IntV(index), << >>, << >>)
(* CLIType(name, namespace, parameters, default_parameters,                *)
(* resolved_parameters) and self.replace(parameters=, resolved_parameters=) *)
InitArgs(parameters, default_parameters, resolved_parameters) ==
    [parameters |-> parameters, default_parameters |-> default_parameters,
     resolved_parameters |-> resolved_parameters]
NewTypeOp(parameters, default_parameters, resolved_parameters) ==
    TypeOp("CLIType", 1, 0, Collection(<< >>),
           InitArgs(<<parameters>>, default_parameters, <<resolved_parameters>>), << >>, << >>)
TypeReplaceOp(self, parameters, resolved_parameters) ==
    TypeOp("replace", self, 0, Collection(<< >>),
           InitArgs(parameters, Collection(<< >>), resolved_parameters), << >>, << >>)

(* the parameters supplied to partial and instantiate: positional, of up to *)
(* MaxSupplied items that may be None, and mappings of TKey, TValue and the *)
(* foreign parameter T                                                      *)
MaxSupplied == 3
Slots(F) == {<< >>, <<TIRef(F.i)>>, <<TIRef(F.s)>>}
Positional(F) == {Collection(items) : items \in UNION {[1..k -> Slots(F)] : k \in 0..MaxSupplied}}
Mappings(F) ==
    {Mapping(d) : d \in UNION {[K -> {TIRef(F.i), TIRef(F.s)}] :
                                  K \in (SUBSET {ParamTKey, ParamTValue}) \cup {{ParamT}}}}
Supplied(F) == Positional(F) \cup Mappings(F)

(* the parameters of the calls that follow another call *)
ChainSupplied(F) ==
    {Collection(<< >>), Collection(<<<<TIRef(F.i)>>>>), Collection(<<<< >>, <<TIRef(F.s)>>>>),
     Collection(<<<<TIRef(F.s)>>, <<TIRef(F.i)>>>>),
     Mapping(<< >>), Mapping(Put(<< >>, ParamTKey, TIRef(F.i))),
     Mapping(Put(<< >>, ParamTValue, TIRef(F.s)))}

(* the member values and the member dicts given to                          *)
(* CLITypeInstance.instantiate                                              *)
MemberValues(F) ==
    {<< >>, <<<< >>>>, <<<<F.va>>>>, <<<<F.va, F.vb>>>>, <<<<F.vb, F.va>>>>,
     <<<<F.va, F.vb, F.va>>>>}
MemberDicts(F) ==
    {<< >>, <<<< >>>>, <<<<<<MemberA, F.va>>>>>>, <<<<<<MemberB, F.vb>>>>>>,
     <<<<<<MemberA, F.va>>, <<MemberB, F.vb>>>>>>, <<<<<<MemberB, F.vb>>, <<MemberA, F.va>>>>>>,
     <<<<<<MemberA, F.va>>, <<MemberB, F.vb>>, <<MemberC, F.va>>>>>>}

(* the scripts: one call; or up to MaxChain successive calls of partial on  *)
(* a generic type, the last of which may be instantiate                     *)
MaxChain == 2
RECURSIVE Chains(_, _)
Chains(F, n) ==
    IF n = 0 THEN {<< >>}
    ELSE {<< >>} \cup {<<PartialOp(0, p)>> \o c : p \in ChainSupplied(F), c \in Chains(F, n - 1)}
                 \cup {<<InstantiateOp(0, p)>> : p \in ChainSupplied(F)}
TypeScripts(F) ==
    {<<PartialOp(t, p)>> : t \in {F.D, F.R, F.Dd, F.E}, p \in Supplied(F)}
    \cup {<<InstantiateOp(t, p)>> : t \in {F.D, F.R, F.E}, p \in Supplied(F)}
    \cup {<<TiInstantiateOp(ti, IntV(7), mv, md)>> :
              ti \in {F.m, F.e, F.i}, mv \in MemberValues(F), md \in MemberDicts(F)}
    \cup {<<PartialOp(t, p)>> \o c :
              t \in {F.D, F.R}, p \in ChainSupplied(F), c \in Chains(F, MaxChain - 1)}

(* what CLIType is constructed from: parameters, as a Collection and as a   *)
(* mapping in the order of its keys; default parameters, as a Collection    *)
(* and as a Mapping; and resolved parameters, None or a sequence            *)
InitParameters(F) ==
    {Collection(<< >>), Collection(<<ParamTKey>>), Collection(<<ParamTKey, ParamTValue>>),
     Collection(<<ParamTKey, ParamTValue, ParamT>>),
     OrderedMapping(<< >>), OrderedMapping(<<<<ParamTKey, << >>>>>>),
     OrderedMapping(<<<<ParamTKey, <<TIRef(F.i)>>>>>>),
     OrderedMapping(<<<<ParamTKey, <<TIRef(F.i)>>>>, <<ParamTValue, << >>>>>>),
     OrderedMapping(<<<<ParamTValue, << >>>>, <<ParamTKey, <<TIRef(F.s)>>>>>>)}
InitDefaults(F) ==
    {Collection(<< >>), Collection(<<<< >>>>), Collection(<<<<TIRef(F.s)>>>>),
     Collection(<<<< >>, <<TIRef(F.s)>>>>), Collection(<<<<TIRef(F.s)>>, << >>, << >>>>),
     Mapping(<< >>), Mapping(Put(<< >>, ParamTKey, TIRef(F.s))),
     Mapping(Put(<< >>, ParamTValue, TIRef(F.s))), Mapping(Put(<< >>, ParamT, TIRef(F.s)))}
InitResolved(F) ==
    {<< >>, <<<< >>>>, <<<<<< >>>>>>, <<<<<<TIRef(F.i)>>>>>>, <<<<<<TIRef(F.i)>>, << >>>>>>,
     <<<<<< >>, << >>>>>>, <<<<<< >>, << >>, <<TIRef(F.i)>>>>>>}

(* the scripts on construction: one call of CLIType; one call of replace on *)
(* a type of the fixture; replace of what partial returned; and partial of  *)
(* what CLIType or replace returned                                         *)
Given(args) == {NOTHING} \cup {<<a>> : a \in args}
ChainReplaced(F) ==
    {<<NOTHING, NOTHING>>, <<NOTHING, <<<<<<<< >>, << >>>>>>>>>>,
     <<<<Collection(<<ParamTKey, ParamTValue, ParamT>>)>>, <<<<<<<< >>, << >>, <<TIRef(F.i)>>>>>>>>>>,
     <<<<Collection(<<ParamTKey>>)>>, <<<<<<<< >>>>>>>>>>,
     <<<<OrderedMapping(<<<<ParamTKey, << >>>>>>)>>, <<<< >>>>>>}
InitScripts(F) ==
    {<<NewTypeOp(p, d, r)>> : p \in InitParameters(F), d \in InitDefaults(F), r \in InitResolved(F)}
    \cup {<<TypeReplaceOp(t, p, r)>> :
              t \in {F.D, F.R, F.Dd, F.E}, p \in Given(InitParameters(F)), r \in Given(InitResolved(F))}
    \cup {<<PartialOp(t, p), TypeReplaceOp(0, a[1], a[2])>> :
              t \in {F.D, F.R}, p \in ChainSupplied(F), a \in ChainReplaced(F)}
    \cup {<<TypeReplaceOp(t, a[1], a[2]), PartialOp(0, p)>> :
              t \in {F.D, F.R}, p \in ChainSupplied(F), a \in ChainReplaced(F)}
    \cup {<<NewTypeOp(p, Collection(<< >>), << >>), PartialOp(0, s), TypeReplaceOp(0, NOTHING, NOTHING)>> :
              p \in InitParameters(F), s \in ChainSupplied(F)}

(* the types I and Foo.Bar.S, the generic types Foo.Bar.P<T>, Q<U> and      *)
(* N.D<T, U>, what partial makes of them for parameters that are types and  *)
(* bindings, the generic type N.G<T> with the member i declared as the      *)
(* binding of T and its partials G<I> and G<S>, and two contexts            *)
NsFooBar == <<70, 111, 111, 46, 66, 97, 114>>
ParamU == <<85>>
CxTypeI == CLIType([th |-> << >>, ih |-> << >>, vh |-> << >>, ch |-> <<CLITypeResolutionContext, CLITypeResolutionContext>>], <<73>>, << >>, << >>, << >>, << >>, TRUE, << >>, << >>, FALSE)
CxTypeS == CLIType(CxTypeI.B, <<83>>, NsFooBar, << >>, << >>, << >>, TRUE, << >>, << >>, FALSE)
CxTypeP == CLIType(CxTypeS.B, <<80>>, NsFooBar, <<ParamT>>, << >>, << >>, FALSE, << >>, << >>, FALSE)
CxTypeQ == CLIType(CxTypeP.B, <<81>>, << >>, <<ParamU>>, << >>, << >>, FALSE, << >>, << >>, FALSE)
CxTypeD == CLIType(CxTypeQ.B, <<68>>, NsN, <<ParamT, ParamU>>, << >>, << >>, FALSE, << >>, << >>, FALSE)
CxTypePI == partial(CxTypeD.B, CxTypeP.val, Collection(<<<<TypeRef(CxTypeI.val)>>>>))
CxTypePS == partial(CxTypePI.B, CxTypeP.val, Collection(<<<<TypeRef(CxTypeS.val)>>>>))
CxTypePb == partial(CxTypePS.B, CxTypeP.val, Collection(<<<<CLITypeBinding(ParamT)>>>>))
CxTypeQb == partial(CxTypePb.B, CxTypeQ.val, Collection(<<<<CLITypeBinding(ParamU)>>>>))
CxTypeDIS == partial(CxTypeQb.B, CxTypeD.val, Collection(<<<<TypeRef(CxTypeI.val)>>, <<TypeRef(CxTypeS.val)>>>>))
CxTypePPI == partial(CxTypeDIS.B, CxTypeP.val, Collection(<<<<TypeRef(CxTypePI.val)>>>>))
CxTypeR == partial(CxTypePPI.B, CxTypeD.val, Collection(<<<<TypeRef(CxTypeI.val)>>>>))
CxTypeG == CLIType(CxTypeR.B, <<71>>, NsN, <<ParamT>>, << >>, << >>, FALSE, <<CLITypeMember(ElItem, CLITypeBinding(ParamT))>>, << >>, FALSE)
CxTypeGI == partial(CxTypeG.B, CxTypeG.val, Collection(<<<<TypeRef(CxTypeI.val)>>>>))
CxTypeGS == partial(CxTypeGI.B, CxTypeG.val, Collection(<<<<TypeRef(CxTypeS.val)>>>>))

ContextFixture ==
    [cli |-> CxTypeGS.B,
     I |-> CxTypeI.val, S |-> CxTypeS.val, P |-> CxTypeP.val, Q |-> CxTypeQ.val,
     D |-> CxTypeD.val, PI |-> CxTypePI.val, PS |-> CxTypePS.val, Pb |-> CxTypePb.val,
     Qb |-> CxTypeQb.val, DIS |-> CxTypeDIS.val, PPI |-> CxTypePPI.val, R |-> CxTypeR.val,
     G |-> CxTypeG.val, GI |-> CxTypeGI.val, GS |-> CxTypeGS.val]

(* the scripts on contexts: up to MaxResolves calls of resolve, alone or    *)
(* followed by str of one or of each of the instances returned; and the     *)
(* scripts written out below                                                *)
MaxResolves == 3
ResolveOps(F) == {ResolveOp(t, c) : t \in {F.PI, F.PS, F.Pb, F.R}, c \in {1, 2}}
Resolves(F) == UNION {[1..n -> ResolveOps(F)] : n \in 1..MaxResolves}
(* an instance of P<T = binding of T> and one of Q<U = binding of U>, each  *)
(* made the parameter the other's binding is bound to                       *)
CyclicScript(F) ==
    <<ResolveOp(F.PI, 1), ResolveOp(F.Pb, 1),
      PartialOp(F.Q, Collection(<<<<TIRef(-2)>>>>)), ResolveOp(-3, 1), ResolveOp(F.Qb, 1),
      PartialOp(F.P, Collection(<<<<TIRef(-5)>>>>)), ResolveOp(-6, 1)>>
(* the scripts on the members of G: up to MaxResolves calls of resolve of   *)
(* G<I> and G<S>, then the type of the member of one of the instances; or   *)
(* the type of the member asked of each instance right after the resolve    *)
(* that returned it, and of each instance again at the end                  *)
MemberResolves(F) ==
    UNION {[1..n -> {ResolveOp(t, c) : t \in {F.GI, F.GS}, c \in {1, 2}}] : n \in 1..MaxResolves}
MemberScripts(F) ==
    UNION {{rs \o <<MemberTypeOp(0 - k, 0)>> : k \in 1..Len(rs)} : rs \in MemberResolves(F)}
    \cup {[k \in 1..(2 * Len(rs)) |->
              IF k % 2 = 1 THEN rs[(k + 1) \div 2] ELSE MemberTypeOp(1 - k, 0)]
          \o [k \in 1..Len(rs) |-> MemberTypeOp(1 - 2 * k, 0)] : rs \in MemberResolves(F)}
    \cup {<<ResolveOp(F.GI, 1), MemberTypeOp(-1, 1)>>, <<NewInstanceOp(F.G, 1), MemberTypeOp(-1, 0)>>}

ContextScripts(F) ==
    MemberScripts(F) \cup
    Resolves(F)
    \cup UNION {{rs \o <<StrOp(0 - k)>> : k \in 1..Len(rs)} : rs \in Resolves(F)}
    \cup {rs \o [k \in 1..Len(rs) |-> StrOp(0 - k)] : rs \in Resolves(F)}
    \cup {<<NewInstanceOp(t, 1), StrOp(-1)>> : t \in {F.D, F.R, F.DIS, F.S}}
    \cup {<<ResolveOp(t, 1), StrOp(-1), StrOp(-1)>> : t \in {F.PPI, F.I, F.S, F.DIS}}
    \cup {CyclicScript(F) \o strs :
              strs \in {<<StrOp(-2)>>, <<StrOp(-5)>>, <<StrOp(-2), StrOp(-5)>>,
                        <<StrOp(-5), StrOp(-2)>>}}

TypeInputs ==
    {[script |-> s, cli |-> TypeFixture.cli] :
         s \in TypeScripts(TypeFixture) \cup InitScripts(TypeFixture)}
    \cup {[script |-> s, cli |-> ContextFixture.cli] : s \in ContextScripts(ContextFixture)}

InitType ==
    /\ f = File(<< >>, 0)
    /\ pos = 0
    /\ pc = "type_call"
    /\ err = NoErr
    /\ arg \in TypeInputs
    /\ ret = NoRet
    /\ DecodeIdle
    /\ bridge = << >>
    /\ calls = << >>
    /\ events = << >>
    /\ handlers = << >>
    /\ handler = 0
    /\ cli = arg.cli
    /\ pushed = << >>
    /\ opened = << >>

(* the call the script makes next, the objects it names, its receiver and   *)
(* its parameters                                                           *)
NextOp == arg.script[Len(calls) + 1]
NamedIn(op) ==
    {op.self} \cup (IF op.parameters.mapping THEN {}
                    ELSE {op.parameters.items[i][1].id :
                              i \in {j \in DOMAIN op.parameters.items :
                                        /\ op.parameters.items[j] # << >>
                                        /\ op.parameters.items[j][1].k # "binding"}})
Returned(x) == IF x > 0 THEN TRUE ELSE IF x = 0 THEN calls[Len(calls)].ok ELSE calls[0 - x].ok
Obj(x) == IF x > 0 THEN x ELSE IF x = 0 THEN calls[Len(calls)].val[1] ELSE calls[0 - x].val[1]
Receiver == Obj(NextOp.self)
Actual(parameters) ==
    IF parameters.mapping THEN parameters
    ELSE Collection([i \in DOMAIN parameters.items |->
                        IF parameters.items[i] = << >> \/ parameters.items[i][1].k = "binding"
                        THEN parameters.items[i]
                        ELSE <<[parameters.items[i][1] EXCEPT !.id = Obj(@)]>>])
CanCall(op) ==
    /\ pc = "type_call"
    /\ Len(calls) < Len(arg.script)
    /\ NextOp.op = op
    /\ \A x \in NamedIn(NextOp) : Returned(x)

(* what a call did: the call, its receiver, and the object returned or the  *)
(* exception raised                                                         *)
TypeCallRecord(op, self, r) ==
    [op |-> op, self |-> self, ok |-> r.ok, err |-> r.err,
     val |-> IF r.ok THEN <<r.val>> ELSE << >>]
Called(r) ==
    /\ cli' = r.B
    /\ calls' = Append(calls, TypeCallRecord(NextOp, Receiver, r))
    /\ err' = r.err
    /\ ret' = IF r.ok THEN [t |-> "object", id |-> r.val] ELSE NoRet
    /\ pc' = IF Len(calls) + 1 < Len(arg.script) THEN "type_call"
             ELSE IF r.ok THEN "type_returned" ELSE "type_failed"
    /\ UNCHANGED <<f, pos, arg, decVars, bridge, events, handlers, handler, pushed, opened>>

(* self.partial(parameters) *)
PartialCall ==
    /\ CanCall("partial")
    /\ Called(partial(cli, Receiver, Actual(NextOp.parameters)))

(* self.instantiate(parameters) of a CLIType *)
InstantiateCall ==
    /\ CanCall("instantiate")
    /\ Called(instantiate(cli, Receiver, Actual(NextOp.parameters)))

(* self.instantiate(value, member_values, member_dict) of a CLITypeInstance *)
TiInstantiateCall ==
    /\ CanCall("ti_instantiate")
    /\ Called(ti_instantiate(cli, Receiver, NextOp.value, NextOp.member_values,
                             NextOp.member_dict))

(* self.resolve(ctx) of a CLIType *)
ResolveCall ==
    /\ CanCall("resolve")
    /\ Called(type_resolve(cli, NextOp.ctx, Receiver))

(* CLITypeInstance(ctx, self) *)
NewInstanceCall ==
    /\ CanCall("CLITypeInstance")
    /\ Called(NewInstance(cli, NextOp.ctx, Receiver))

(* str(self) of a CLITypeInstance *)
StrCall ==
    /\ CanCall("str")
    /\ Called(ti_str(cli, Receiver))

(* self.members[index].type of a CLITypeInstance *)
MemberTypeCall ==
    /\ CanCall("member_type")
    /\ Called(member_type(cli, Receiver, NextOp.value.v))

(* CLIType(name, namespace, parameters=, default_parameters=,              *)
(* resolved_parameters=)                                                    *)
NewTypeCall ==
    /\ CanCall("CLIType")
    /\ Called(CLIType_init(cli, <<88>>, NsN, NextOp.value.parameters[1],
                           NextOp.value.default_parameters,
                           NextOp.value.resolved_parameters[1], FALSE, << >>, << >>, FALSE))

(* self.replace(parameters=, resolved_parameters=) *)
TypeReplaceCall ==
    /\ CanCall("replace")
    /\ Called(type_replace(cli, Receiver, NextOp.value.parameters,
                           NextOp.value.resolved_parameters))

NextType ==
    \/ NewTypeCall
    \/ TypeReplaceCall
    \/ MemberTypeCall
    \/ PartialCall
    \/ InstantiateCall
    \/ TiInstantiateCall
    \/ ResolveCall
    \/ NewInstanceCall
    \/ StrCall

SpecType == InitType /\ [][NextType]_vars

(* a call of partial is being made *)
PartialStep ==
    /\ pc = "type_call"
    /\ Len(calls) < Len(arg.script)
    /\ NextOp.op = "partial"
    /\ Len(calls') = Len(calls) + 1

(* the value supplied for slot i of the type t, if any *)
SuppliedAt(parameters, t, i) ==
    IF parameters.mapping
    THEN IF t.parameters[i] \in DOMAIN parameters.d THEN <<parameters.d[t.parameters[i]]>>
         ELSE << >>
    ELSE IF i <= Len(parameters.items) THEN parameters.items[i] ELSE << >>

(* the left-merge of the resolved vector of t and the supplied values *)
LeftMerge(t, parameters) ==
    [i \in 1..Len(t.parameters) |->
        IF t.resolved_parameters[i] # << >> THEN t.resolved_parameters[i]
        ELSE SuppliedAt(parameters, t, i)]

(* the call of partial being made does what the left-merge says; with       *)
(* defaults, a value supplied for an open slot that has a default is        *)
(* rejected instead                                                         *)
PartialAsMerged(defaults) ==
    LET t == cli.th[Receiver]
        p == Actual(NextOp.parameters)
        r == calls'[Len(calls')]
        slots == 1..Len(t.parameters)
    IN  IF ~p.mapping /\ Len(p.items) > Len(t.parameters) THEN ~r.ok
        ELSE IF \E i \in slots : t.resolved_parameters[i] # << >> /\ SuppliedAt(p, t, i) # << >>
        THEN ~r.ok /\ r.err = Raise("ValueError", <<"already has a value">>)
        ELSE IF defaults /\ \E i \in slots : /\ t.default_parameters[i] # << >>
                                             /\ SuppliedAt(p, t, i) # << >>
        THEN ~r.ok /\ r.err = Raise("ValueError", <<"default parameter shadows">>)
        ELSE /\ r.ok
             /\ r.val[1] \notin DOMAIN cli.th
             /\ cli'.th[r.val[1]].name = t.name
             /\ cli'.th[r.val[1]].namespace = t.namespace
             /\ cli'.th[r.val[1]].parameters = t.parameters
             /\ cli'.th[r.val[1]].resolved_parameters = LeftMerge(t, p)
             /\ cli'.th[Receiver] = t

(* C16: partial(params), positional or mapping, returns a new type of the   *)
(* same name, namespace and parameters whose resolved vector is the         *)
(* left-merge of the receiver's and the supplied values: an open slot takes *)
(* the supplied value or stays open, a resolved slot keeps its value and a  *)
(* value supplied for it raises AlreadyBound, a positional sequence longer  *)
(* than the parameters is rejected; the receiver is unchanged.              *)
C16_PartialLeftMerge == [][PartialStep => PartialAsMerged(FALSE)]_vars

(* C16, amended: the same, except that a value supplied for an open slot    *)
(* that has a default is rejected (no slot has both a resolved value and a  *)
(* default).                                                                *)
C16_PartialLeftMergeUnlessDefault == [][PartialStep => PartialAsMerged(TRUE)]_vars

(* partial has filled the open slot of a type whose other slot was resolved *)
(* already, and has kept that one                                           *)
C16_Witness ==
    \E k \in DOMAIN calls :
        /\ calls[k].op.op = "partial"
        /\ calls[k].ok
        /\ cli.th[calls[k].self].resolved_parameters = <<<<TIRef(TypeFixture.i)>>, << >>>>
        /\ cli.th[calls[k].val[1]].resolved_parameters =
              <<<<TIRef(TypeFixture.i)>>, <<TIRef(TypeFixture.s)>>>>

(* the type at the top of the derived_from chain of t *)
RECURSIVE Unpartialized(_, _)
Unpartialized(B, t) ==
    IF B.th[t].derived_from = << >> THEN t ELSE Unpartialized(B, B.th[t].derived_from[1])

(* C19: of a type obtained from an unpartialized type R by one or more      *)
(* successive calls of partial, derived_from is R and origin is R; origin   *)
(* of a type never partialized is the type itself.                          *)
C19_DerivedFromUnpartialized ==
    pc \in {"type_call", "type_returned", "type_failed"} =>
        \A t \in DOMAIN cli.th :
            IF cli.th[t].derived_from = << >> THEN origin(cli, t) = t
            ELSE /\ cli.th[t].derived_from = <<Unpartialized(cli, t)>>
                 /\ origin(cli, t) = Unpartialized(cli, t)

(* the members the type of the type instance ti declares *)
DeclaredMembers(B, ti) == B.th[B.ih[ti].derived_from].members

(* how many member values the call op gives an instance with the declared   *)
(* members                                                                  *)
GivenCount(op, declared) ==
    IF op.member_values # << >> THEN Len(op.member_values[1])
    ELSE IF op.member_dict # << >> /\ declared # << >> THEN Len(op.member_dict[1])
    ELSE 0

(* C20: every CompositeObject that exists after a call of                   *)
(* TypeInstance.instantiate has exactly as many member values as its type   *)
(* declares members, in the order of the members' ordinals; a call that     *)
(* would give another count fails.                                          *)
C20_MemberCountMatches ==
    pc \in {"type_call", "type_returned", "type_failed"} =>
        /\ \A v \in DOMAIN cli.vh :
              cli.vh[v].t = "CLICompositeObject" =>
                  Len(cli.vh[v].members) = Len(DeclaredMembers(cli, cli.vh[v].type_instance))
        /\ \A k \in DOMAIN calls :
              calls[k].op.op = "ti_instantiate" =>
                  LET op == calls[k].op
                      declared == DeclaredMembers(cli, calls[k].self)
                      made == cli.vh[calls[k].val[1]]
                  IN  /\ (/\ ~cli.th[cli.ih[calls[k].self].derived_from].intrinsic
                          /\ GivenCount(op, declared) # Len(declared)) => ~calls[k].ok
                      /\ (calls[k].ok /\ made.t = "CLICompositeObject") =>
                            IF op.member_values # << >> THEN made.members = op.member_values[1]
                            ELSE \A i \in DOMAIN declared :
                                    \E j \in DOMAIN op.member_dict[1] :
                                        /\ op.member_dict[1][j][1] = declared[i].name
                                        /\ made.members[i] = op.member_dict[1][j][2]

(* an instance of N.M has been instantiated from a member dict that names b *)
(* before a                                                                 *)
C20_Witness ==
    \E k \in DOMAIN calls :
        /\ calls[k].op.op = "ti_instantiate"
        /\ calls[k].ok
        /\ calls[k].op.member_dict = <<<<<<MemberB, TypeFixture.vb>>, <<MemberA, TypeFixture.va>>>>>>
        /\ cli.vh[calls[k].val[1]].members = <<TypeFixture.va, TypeFixture.vb>>

(* a call of resolve, or of str, is being made *)
ResolveStep ==
    /\ pc = "type_call"
    /\ Len(calls) < Len(arg.script)
    /\ NextOp.op = "resolve"
    /\ Len(calls') = Len(calls) + 1
StrStep ==
    /\ pc = "type_call"
    /\ Len(calls) < Len(arg.script)
    /\ NextOp.op = "str"
    /\ Len(calls') = Len(calls) + 1

(* the instance of a resolved expression in the context c of K: a type      *)
(* instance is itself, a type has the instance interned for it, a binding   *)
(* the instance its parameter is bound to                                   *)
InstanceOf(K, c, resolvable) ==
    CASE resolvable.k = "ti" -> <<resolvable.id>>
      [] resolvable.k = "type" ->
            IF resolvable.id \in DOMAIN K.ch[c].resolved
            THEN <<K.ch[c].resolved[resolvable.id]>> ELSE << >>
      [] OTHER ->
            IF resolvable.ref \in DOMAIN K.ch[c].refs
            THEN <<K.ch[c].refs[resolvable.ref]>> ELSE << >>

(* C17: resolve(ctx) of a type fails with UnresolvedParameters whenever a   *)
(* parameter slot of the type is None; a resolve that succeeds returns an   *)
(* instance of the type in ctx, the one every earlier resolve of this type  *)
(* with this context returned, and after it ctx.refs maps each parameter of *)
(* the type to the instance of its resolved expression.                     *)
C17_ResolveInternsAndBinds ==
    [][ResolveStep =>
        LET t == cli.th[Receiver]
            c == NextOp.ctx
            r == calls'[Len(calls')]
        IN  IF \E i \in DOMAIN t.parameters : t.resolved_parameters[i] = << >>
            THEN ~r.ok /\ r.err = Raise("ValueError", <<"has unresolved parameters">>)
            ELSE r.ok =>
                   /\ cli'.ih[r.val[1]].derived_from = Receiver
                   /\ cli'.ih[r.val[1]].ctx = c
                   /\ \A k \in DOMAIN calls :
                          (/\ calls[k].op.op = "resolve"
                           /\ calls[k].ok
                           /\ calls[k].self = Receiver
                           /\ calls[k].op.ctx = c) => calls[k].val = r.val
                   /\ \A i \in DOMAIN t.parameters :
                          /\ t.parameters[i] \in DOMAIN cli'.ch[c].refs
                          /\ <<cli'.ch[c].refs[t.parameters[i]]>>
                                = InstanceOf(cli', c, t.resolved_parameters[i][1])]_vars

(* the string of the type self in the context c, made without ctx.reprs:    *)
(* the types whose stringification is in progress are the pairs in entered  *)
RECURSIVE Stringified(_, _, _, _)
StringifiedParameters(K, c, resolved_parameters, entered) ==
    LET AtSlot(i) ==
            IF resolved_parameters[i] = << >> THEN <<63>>
            ELSE LET ti == InstanceOf(K, c, resolved_parameters[i][1])
                 IN  IF resolved_parameters[i][1].k = "type"
                     THEN Stringified(K, c, resolved_parameters[i][1].id, entered)
                     ELSE Stringified(K, K.ih[ti[1]].ctx, K.ih[ti[1]].derived_from, entered)
        RECURSIVE Joined(_)
        Joined(i) ==
            IF i > Len(resolved_parameters) THEN << >>
            ELSE AtSlot(i) \o (IF i < Len(resolved_parameters) THEN <<44, 32>> ELSE << >>)
                 \o Joined(i + 1)
    IN  Joined(1)
Stringified(K, c, self, entered) ==
    LET t == K.th[self]
    IN  IF <<c, self>> \in entered THEN <<46, 46, 46>>
        ELSE (IF t.namespace = << >> THEN << >> ELSE t.namespace \o <<46>>)
             \o t.name
             \o (IF t.parameters = << >> THEN << >>
                 ELSE <<60>>
                      \o StringifiedParameters(K, c, t.resolved_parameters,
                                               entered \cup {<<c, self>>})
                      \o <<62>>)

(* C18: str of a type instance is the dotted namespace, a dot (none for the *)
(* root namespace) and the name of its type, then, when the type has        *)
(* parameters, "<", the parameters stringified the same way and joined by   *)
(* ", ", and ">", with "?" for an unresolved slot and "..." for a type      *)
(* entered again while its own stringification is in progress.              *)
C18_StrOfTypeInstance ==
    [][StrStep =>
        LET r == calls'[Len(calls')]
        IN  r.ok => r.val[1] = Stringified(cli, cli.ih[Receiver].ctx,
                                           cli.ih[Receiver].derived_from, {})]_vars

(* the type of a member of an instance is being asked *)
MemberTypeStep ==
    /\ pc = "type_call"
    /\ Len(calls) < Len(arg.script)
    /\ NextOp.op = "member_type"
    /\ Len(calls') = Len(calls) + 1

(* the instance ti was made by resolving a partial of G whose parameter T   *)
(* is the type X                                                            *)
ResolvedFrom(ti, G) ==
    /\ cli.th[cli.ih[ti].derived_from].derived_from = <<G>>
    /\ ti \in {cli.ch[cli.ih[ti].ctx].resolved[t] : t \in DOMAIN cli.ch[cli.ih[ti].ctx].resolved}
ParameterOf(ti) == cli.th[cli.ih[ti].derived_from].resolved_parameters[1][1].id

(* C29: within one context, for the generic type G<T> with a member         *)
(* declared as the binding of T: the type of that member of every instance  *)
(* obtained by resolving a partial G<X> in the context is the instance of   *)
(* X of that context, whatever other partials G<Y> were resolved in the     *)
(* context before or after it and whenever the member is first accessed.    *)
C29_MemberTypeFollowsOwnParameter ==
    [][(MemberTypeStep /\ ResolvedFrom(Receiver, ContextFixture.G) /\ NextOp.value.v = 0) =>
        /\ calls'[Len(calls')].ok
        /\ cli'.ih[calls'[Len(calls')].val[1]].derived_from = ParameterOf(Receiver)
        /\ cli'.ih[calls'[Len(calls')].val[1]].ctx = cli.ih[Receiver].ctx]_vars

(* the calls that make a CLIType and nothing else, and what a call of       *)
(* CLIType or of replace hands to CLIType.__init__                          *)
TypeMaking == {"CLIType", "replace", "partial"}
Handed(call) ==
    IF call.op.op = "CLIType"
    THEN InitArgs(call.op.value.parameters[1], call.op.value.default_parameters,
                  call.op.value.resolved_parameters[1])
    ELSE InitArgs(IF call.op.value.parameters = NOTHING
                  THEN Collection(cli.th[call.self].parameters)
                  ELSE call.op.value.parameters[1],
                  Collection(cli.th[call.self].default_parameters),
                  IF call.op.value.resolved_parameters = NOTHING
                  THEN <<cli.th[call.self].resolved_parameters>>
                  ELSE call.op.value.resolved_parameters[1])
(* sequences that would make vectors of other lengths than the parameters' *)
WouldBreak(a) ==
    \/ /\ ~a.parameters.mapping
       /\ a.resolved_parameters # << >>
       /\ Len(a.resolved_parameters[1]) # Len(a.parameters.items)
    \/ /\ ~a.default_parameters.mapping
       /\ Len(a.default_parameters.items) > Len(a.parameters.items)

(* C30: every Type that exists after any sequence of construction,          *)
(* replace() and partial() calls has parameter, resolved and default        *)
(* vectors of equal length; a construction that would break this fails and  *)
(* produces no Type.                                                        *)
C30_VectorsOfEqualLength ==
    pc \in {"type_call", "type_returned", "type_failed"} =>
        /\ \A t \in DOMAIN cli.th :
              /\ Len(cli.th[t].parameters) = Len(cli.th[t].resolved_parameters)
              /\ Len(cli.th[t].parameters) = Len(cli.th[t].default_parameters)
        /\ \A k \in DOMAIN calls :
              /\ (calls[k].op.op \in {"CLIType", "replace"} /\ WouldBreak(Handed(calls[k])))
                    => ~calls[k].ok
              /\ (/\ calls[k].op.op = "partial"
                  /\ ~calls[k].op.parameters.mapping
                  /\ Len(calls[k].op.parameters.items) > Len(cli.th[calls[k].self].parameters))
                    => ~calls[k].ok
        /\ (\A k \in DOMAIN calls : calls[k].op.op \in TypeMaking) =>
              Len(cli.th) = Len(arg.cli.th) + Cardinality({k \in DOMAIN calls : calls[k].ok})

(* replace has made a type of three parameters of what partial made of a    *)
(* type of two                                                              *)
C30_Witness ==
    /\ pc = "type_returned"
    /\ Len(calls) = 2
    /\ calls[1].op.op = "partial"
    /\ calls[2].op.op = "replace"
    /\ calls[2].self = calls[1].val[1]
    /\ Len(cli.th[calls[2].self].parameters) = 2
    /\ cli.th[calls[2].val[1]].parameters = <<ParamTKey, ParamTValue, ParamT>>
    /\ cli.th[calls[2].val[1]].resolved_parameters = <<<< >>, << >>, <<TIRef(TypeFixture.i)>>>>
    /\ Len(cli.th[calls[2].val[1]].default_parameters) = 3

----------------------------------------------------------------------------
(* The length-prefixed string reader on its own: the stream holds a LEB128  *)
(* length prefix followed by body bytes.                                    *)

MaxExtraBytes == 1
GroupValues == {0, 1, 127}

RECURSIVE LEB128(_)
LEB128(n) == IF n < 128 THEN <<n>> ELSE <<(n % 128) + 128>> \o LEB128(n \div 128)

RECURSIVE GroupsValue(_)
GroupsValue(g) == IF g = << >> THEN 0 ELSE Head(g) + 128 * GroupsValue(Tail(g))

(* a length below 2^28 has at most four 7-bit groups *)
LPSLengths ==
    {GroupsValue(g) : g \in UNION {[1..k -> GroupValues] : k \in 1..4}}

(* five bytes with the continuation bit set, then a sixth byte *)
OverlongPrefixes ==
    {<<128 + a, 128 + b, 128, 128, 128 + c, d>> : a \in {0, 1}, b \in {0, 127}, c \in {0, 7}, d \in {0, 1}}

LPSArgs ==
    {[kind |-> "encoded", n |-> n, prefix |-> LEB128(n), body |-> n + e] :
        n \in LPSLengths, e \in 0..MaxExtraBytes}
    \cup {[kind |-> "short", n |-> n, prefix |-> LEB128(n), body |-> n - 1] :
        n \in LPSLengths \ {0}}
    \cup {[kind |-> "overlong", n |-> 0, prefix |-> p, body |-> 0] : p \in OverlongPrefixes}

InitLPS ==
    /\ arg \in LPSArgs
    /\ f = File(arg.prefix, arg.body)
    /\ pos = 0
    /\ pc = "lps_call"
    /\ err = NoErr
    /\ ret = NoRet
    /\ DecodeIdle
    /\ BridgeIdle
    /\ XmlIdle

LPSCall ==
    /\ pc = "lps_call"
    /\ LET r == LengthPrefixedStringReader(f, pos)
       IN  /\ pos' = r.pos
           /\ err' = r.err
           /\ ret' = IF r.ok THEN [t |-> "str", start |-> r.start, len |-> r.len] ELSE NoRet
           /\ pc' = IF r.ok THEN "lps_done" ELSE "lps_failed"
    /\ UNCHANGED <<brVars, xmlVars>>
    /\ UNCHANGED <<f, arg, decVars>>

NextLPS == LPSCall

SpecLPS == InitLPS /\ [][NextLPS]_vars

(* C7: for every n in [0, 2^28) the reader applied to the LEB128 encoding   *)
(* of n followed by n bytes decodes the prefix to exactly n and consumes    *)
(* exactly those n bytes; a prefix whose fifth byte still has the           *)
(* continuation bit set is rejected with the invalid-length-prefix error.   *)
C7_LengthPrefixRoundTrip ==
    /\ (pc # "lps_call" /\ arg.kind = "encoded" /\ arg.n < 268435456) =>
            /\ pc = "lps_done"
            /\ ret.len = arg.n
            /\ pos = Len(arg.prefix) + arg.n
    /\ (pc # "lps_call" /\ arg.kind = "overlong") =>
            /\ pc = "lps_failed"
            /\ err = Raise("InvalidStreamError", << >>)

----------------------------------------------------------------------------
(* Two calls of one Deserializer with one root descriptor, one after the    *)
(* other.  The caller's types are made as the tests make them: Builtins in  *)
(* a context of their own, a generic type N.X<T> with the member m declared *)
(* as T and the member q declared as the type List<String> (a CLIType,      *)
(* resolved when the member is looked up), and X<Int32> instantiated in a   *)
(* new context, which the instance keeps.                                   *)

CallsBuiltins ==
    NewBuiltins([th |-> [i \in 1..Len(ModuleTypes) |-> ModuleTypes[i].type],
                 ih |-> << >>, vh |-> << >>, ch |-> << >>])
CallsListOfString ==
    partial(CallsBuiltins.B, Global("SYSTEM_COLLECTIONS_GENERIC_LIST"),
            Collection(<<<<TIRef(Builtin("SYSTEM_STRING"))>>>>))
CallsTypeX ==
    CLIType(CallsListOfString.B, ElX, NsN, <<ParamT>>, << >>, << >>, FALSE,
            <<CLITypeMember(ElM, CLITypeBinding(ParamT)),
              CLITypeMember(ElQ, TypeRef(CallsListOfString.val))>>, << >>, FALSE)
CallsX ==
    instantiate(CallsTypeX.B, CallsTypeX.val,
                Collection(<<<<TIRef(Builtin("SYSTEM_INT32"))>>>>))
CallsTypes == [cli |-> CallsX.B, x |-> CallsX.val]

(* the root descriptor: <X> of the type X<Int32> with the members <m>, a    *)
(* basic value, and <q>, an array, their types left to be inferred          *)
CallsRoot ==
    MemberDescriptor(ElX, <<UriN>>,
        CompositeTypeDescriptor(<<CallsTypes.x>>,
            <<MemberDescriptor(ElM, << >>, BasicTypeDescriptor(<< >>), << >>),
              MemberDescriptor(ElQ, << >>, ArrayTypeDescriptor(<< >>, << >>, << >>), << >>)>>),
        << >>)

(* the documents: <X> with <m>12</m>, with an empty or a one-item <q>, with *)
(* both in either order, and with an <m> of an i:type                       *)
CallsDocuments ==
    {X(<<M(<< >>, <<Text(TextTwelve)>>)>>),
     X(<<Q(<< >>)>>),
     X(<<Q(<<Item(<< >>, <<Text(TextOne)>>)>>)>>),
     X(<<M(<< >>, <<Text(TextTwelve)>>), Q(<< >>)>>),
     X(<<Q(<<Item(<< >>, <<Text(TextOne)>>)>>), M(<< >>, <<Text(TextTwelve)>>)>>),
     X(<<TypedM(XsLong, <<Text(TextTwelve)>>)>>)}

(* the first call's document and the second's *)
TwoCalls ==
    {[descriptor |-> CallsRoot, events |-> SaxEvents(first), again |-> SaxEvents(second)] :
         first \in CallsDocuments, second \in CallsDocuments}

(* what the caller sees of a returned value: its class, the type its type   *)
(* instance derives from, its value and its members                         *)
RECURSIVE Decoded(_, _)
Decoded(C, v) ==
    IF v.t # "CLIValue" THEN v
    ELSE [t |-> C.vh[v.addr].t,
          type |-> C.ih[C.vh[v.addr].type_instance].derived_from,
          value |-> IF C.vh[v.addr].value.t = "list"
                    THEN ListV([i \in 1..Len(C.vh[v.addr].value.items) |->
                                   Decoded(C, C.vh[v.addr].value.items[i])])
                    ELSE C.vh[v.addr].value,
          members |-> [i \in 1..Len(C.vh[v.addr].members) |->
                          Decoded(C, C.vh[v.addr].members[i])]]

(* how the call that is over ended: returned or raised, the error, the      *)
(* value returned                                                           *)
CallOutcome ==
    [ok |-> pc = "xml_returned", err |-> err,
     val |-> IF pc = "xml_returned" THEN Decoded(cli, ret) ELSE NoneV]

InitCalls ==
    /\ f = File(<< >>, 0)
    /\ pos = 0
    /\ pc = "xml_call"
    /\ err = NoErr
    /\ arg \in TwoCalls
    /\ ret = NoRet
    /\ DecodeIdle
    /\ BridgeIdle
    /\ events = << >>
    /\ handlers = << >>
    /\ handler = 0
    /\ cli = CallsTypes.cli
    /\ pushed = << >>
    /\ opened = << >>

(* the caller, the first call over, calls the Deserializer again with the   *)
(* same descriptor: Deserializer.__call__ up to parser.parse, with a new    *)
(* parser, context and sentinel, over the types as the first call left      *)
(* them; the first call's outcome and these types are kept in calls         *)
DeserializeAgain ==
    /\ pc \in {"xml_returned", "xml_failed"}
    /\ calls = << >>
    /\ calls' = <<[outcome |-> CallOutcome, cli |-> cli]>>
    /\ LET Root(r) == SetContentHandler(MemberHandler(r.S, r.val, arg.descriptor))
       IN  XmlStep(Root(SentinelHandler([handlers |-> << >>, handler |-> 0, cli |-> cli,
                                         pushed |-> << >>])),
                   "xml_parse")
    /\ events' = arg.again
    /\ opened' = << >>
    /\ ret' = NoRet
    /\ UNCHANGED <<f, pos, arg, decVars, bridge>>

NextCalls ==
    \/ Deserialize
    \/ StartPrefixMapping
    \/ StartElementNS
    \/ Characters
    \/ EndElementNS
    \/ DeserializeReturn
    \/ DeserializeAgain

SpecCalls == InitCalls /\ [][NextCalls]_vars

(* a call run alone: the events delivered one by one to the content handler *)
(* of a new Deserializer call over the types C                              *)
RECURSIVE DeliverAll(_, _)
DeliverAll(r, document) ==
    IF ~r.ok \/ document = << >> THEN r
    ELSE IF r.S.handler = 0
    THEN XFail(r.S, "AttributeError", <<Head(document).kind>>)
    ELSE DeliverAll(CASE Head(document).kind = "startPrefixMapping" ->
                         startPrefixMapping(r.S, r.S.handler, Head(document).prefix,
                                            Head(document).uri)
                  [] Head(document).kind = "startElementNS" ->
                         startElementNS(r.S, r.S.handler, Head(document).name,
                                        Head(document).attrs)
                  [] Head(document).kind = "characters" ->
                         characters(r.S, r.S.handler, Head(document).content)
                  [] Head(document).kind = "endElementNS" -> endElementNS(r.S, r.S.handler),
                Tail(document))
Alone(C, descriptor, document) ==
    LET Root(r) == SetContentHandler(MemberHandler(r.S, r.val, descriptor))
        Ended(r) ==
            [ok |-> r.ok, err |-> r.err,
             val |-> IF r.ok THEN Decoded(r.S.cli, r.S.handlers[1].result) ELSE NoneV]
    IN  Ended(DeliverAll(Root(SentinelHandler([handlers |-> << >>, handler |-> 0, cli |-> C,
                                           pushed |-> << >>])),
                     document))

(* whether the second call is over *)
SecondCallOver == pc \in {"xml_returned", "xml_failed"} /\ calls # << >>

(* C21: two calls of one Deserializer with one root descriptor, run one     *)
(* after the other, share no mutable state: the second call returns, or     *)
(* raises, what it does when it runs alone over the caller's types, and the *)
(* type resolution contexts it begins with are those the caller made.       *)
C21_CallsShareNoState ==
    SecondCallOver =>
        /\ CallOutcome = Alone(CallsTypes.cli, arg.descriptor, arg.again)
        /\ calls[1].cli.ch = CallsTypes.cli.ch

====
